---- MODULE Spec2Model ----
(***************************************************************************)
(* A model of the Nail UVs addon (src/__init__.py): the per-face texture   *)
(* configuration, the projection (apply), the texture-locked transform,    *)
(* the operators that edit the configuration, the auto-apply handler with  *)
(* its debounce timer, and the wake/sleep lifecycle.                       *)
(*                                                                         *)
(* Numbers.  The source works on floats; the model works on exact values   *)
(* on a grid.  Vertex coordinates, UV axes and matrices are integers.      *)
(* Shift and UV coordinates are counted in quarters (the integer 5 is the  *)
(* value 1.25).  A stored scale is an integer; a stored rotation is a      *)
(* number of quarter turns (1 is pi/2).  Every division the model performs *)
(* is exact on the values it draws.  Rounding error, which the source      *)
(* absorbs with isclose (abs_tol 1e-5), does not exist on this grid, so    *)
(* isclose is equality.                                                    *)
(***************************************************************************)
EXTENDS Integers, Sequences, FiniteSets, TLC

VARIABLES
    mesh,       \* the mesh of the object in scene: geometry, attributes, UVs
    env,        \* what the host holds: mode, selection, active face, matrix_world, wrap_uvs
    last,       \* the operation performed last, with the faces it handed to apply
    steps,      \* number of operations performed
    hs,         \* state of the auto-apply handler, its timer and the event queue
    ls          \* state of the wake/sleep lifecycle

vars == <<mesh, env, last, steps, hs, ls>>

-----------------------------------------------------------------------------
(* Vector primitives                                                       *)

Abs(x) == IF x < 0 THEN -x ELSE x

Sgn(x) == IF x < 0 THEN -1 ELSE IF x > 0 THEN 1 ELSE 0

Vec3Zero == <<0, 0, 0>>

Add3(a, b) == <<a[1] + b[1], a[2] + b[2], a[3] + b[3]>>

Sub3(a, b) == <<a[1] - b[1], a[2] - b[2], a[3] - b[3]>>

Neg3(a) == <<-a[1], -a[2], -a[3]>>

Dot(a, b) == a[1] * b[1] + a[2] * b[2] + a[3] * b[3]

Cross(a, b) ==
    <<a[2] * b[3] - a[3] * b[2], a[3] * b[1] - a[1] * b[3], a[1] * b[2] - a[2] * b[1]>>

\* Vector.length, on the vectors of the model: multiples of a coordinate axis
\* (at most one non-zero component), whose length is an integer.
Length(v) == Abs(v[1]) + Abs(v[2]) + Abs(v[3])

IsAxisMultiple(v) == Cardinality({i \in 1..3 : v[i] # 0}) <= 1

\* Vector.normalize: the zero vector stays zero.
Normalize(v) == <<Sgn(v[1]), Sgn(v[2]), Sgn(v[3])>>

\* 3x3 matrices are tuples of rows.
Identity3 == <<<<1, 0, 0>>, <<0, 1, 0>>, <<0, 0, 1>>>>

MatVec(m, v) == <<Dot(m[1], v), Dot(m[2], v), Dot(m[3], v)>>

Col(m, j) == <<m[1][j], m[2][j], m[3][j]>>

MatMul(a, b) == [i \in 1..3 |-> [j \in 1..3 |-> Dot(a[i], Col(b, j))]]

Transpose(m) == [i \in 1..3 |-> Col(m, i)]

Diagonal(d) == <<<<d[1], 0, 0>>, <<0, d[2], 0>>, <<0, 0, d[3]>>>>

\* Matrix.inverted, on the rotation matrices the model draws (inverse = transpose).
Inverted3(m) == Transpose(m)

\* A 4x4 affine matrix: its rotation-scale part and its translation column.
Affine(rs, t) == [rs |-> rs, t |-> t]

AffineIdentity == Affine(Identity3, Vec3Zero)

\* a @ b
AffineMul(a, b) == Affine(MatMul(a.rs, b.rs), Add3(MatVec(a.rs, b.t), a.t))

\* m @ p for a point p
AffinePoint(m, p) == Add3(MatVec(m.rs, p), m.t)

AffineInverted(m) == Affine(Inverted3(m.rs), Neg3(MatVec(Inverted3(m.rs), m.t)))

Translation(t) == Affine(Identity3, t)

\* Matrix.Rotation(angle, 2) applied by Vector.rotate, for q quarter turns.
Rotate2(q, uv) ==
    CASE q % 4 = 0 -> uv
      [] q % 4 = 1 -> <<-uv[2], uv[1]>>
      [] q % 4 = 2 -> <<-uv[1], -uv[2]>>
      [] OTHER     -> <<uv[2], -uv[1]>>

\* a / b where b divides a (b may be negative).
Div(a, b) == IF b < 0 THEN (-a) \div (-b) ELSE a \div b

\* A whole number as a shift/UV value (quarters).
Whole(n) == 4 * n

isclose(a, b) == a = b

vec3_isclose(a, b) == isclose(a[1], b[1]) /\ isclose(a[2], b[2]) /\ isclose(a[3], b[3])

vec3_is_zero(v) == isclose(v[1], 0) /\ isclose(v[2], 0) /\ isclose(v[3], 0)

\* frac(f) = f - floor(f), on quarters.
frac(f) == f % Whole(1)

\* frac_n1to1(f) = copysign(frac(fabs(f)), f) + 0
frac_n1to1(f) == Sgn(f) * frac(Abs(f))

-----------------------------------------------------------------------------
(* Face-orientation classifier                                             *)

ORIENTATION_PX == 0
ORIENTATION_PY == 1
ORIENTATION_PZ == 2
ORIENTATION_NX == 3
ORIENTATION_NY == 4
ORIENTATION_NZ == 5

\* Indexed by orientation + 1.
UP_VECTORS ==
    <<<<0, 0, 1>>, <<0, 0, 1>>, <<0, 1, 0>>, <<0, 0, 1>>, <<0, 0, 1>>, <<0, 1, 0>>>>

RIGHT_VECTORS ==
    <<<<0, -1, 0>>, <<-1, 0, 0>>, <<-1, 0, 0>>, <<0, -1, 0>>, <<-1, 0, 0>>, <<-1, 0, 0>>>>

\* A classifier whose ties fall to the later axis.
face_orientation_ties_to_later(v) ==
    LET ax == Abs(v[1])
        ay == Abs(v[2])
        az == Abs(v[3])
    IN  IF az >= ax /\ az >= ay
        THEN (IF v[3] >= 0 THEN ORIENTATION_PZ ELSE ORIENTATION_NZ)
        ELSE IF ay >= ax /\ ay >= az
        THEN (IF v[2] >= 0 THEN ORIENTATION_PY ELSE ORIENTATION_NY)
        ELSE (IF v[1] >= 0 THEN ORIENTATION_PX ELSE ORIENTATION_NX)

face_orientation(v) ==
    LET ax == Abs(v[1])
        ay == Abs(v[2])
        az == Abs(v[3])
    IN  IF ax >= ay /\ ax >= az
        THEN (IF v[1] >= 0 THEN ORIENTATION_PX ELSE ORIENTATION_NX)
        ELSE IF ay >= ax /\ ay >= az
        THEN (IF v[2] >= 0 THEN ORIENTATION_PY ELSE ORIENTATION_NY)
        ELSE (IF v[3] >= 0 THEN ORIENTATION_PZ ELSE ORIENTATION_NZ)

\* dominant_axis(v): the dominant axis index, then the two others (0-based).
dominant_axis(v) ==
    LET ax == Abs(v[1])
        ay == Abs(v[2])
        az == Abs(v[3])
    IN  IF ax >= ay /\ ax >= az
        THEN <<0, 1, 2>>
        ELSE IF ay >= ax /\ ay >= az
        THEN <<1, 0, 2>>
        ELSE <<2, 0, 1>>

-----------------------------------------------------------------------------
(* TextureConfig flags                                                     *)

TCFLAG_ENABLED == 1
TCFLAG_OBJECT_SPACE == 2
TCFLAG_ALIGN_FACE == 4
TCFLAG_ALIGN_LOCKED == 8

FlagBits == {TCFLAG_ENABLED, TCFLAG_OBJECT_SPACE, TCFLAG_ALIGN_FACE, TCFLAG_ALIGN_LOCKED}

TCFLAG_ALL == TCFLAG_ENABLED + TCFLAG_OBJECT_SPACE + TCFLAG_ALIGN_FACE + TCFLAG_ALIGN_LOCKED

\* Whether bit b (a power of two) is set in a.
HasBit(a, b) == (a \div b) % 2 = 1

RECURSIVE SumBits(_)
SumBits(s) == IF s = {} THEN 0 ELSE LET b == CHOOSE x \in s : TRUE IN b + SumBits(s \ {b})

BitAnd(a, b) == SumBits({x \in FlagBits : HasBit(a, x) /\ HasBit(b, x)})

BitOr(a, b) == SumBits({x \in FlagBits : HasBit(a, x) \/ HasBit(b, x)})

BitXor(a, b) == SumBits({x \in FlagBits : HasBit(a, x) # HasBit(b, x)})

\* ~a, within the four flag bits
BitNot(a) == SumBits({x \in FlagBits : ~HasBit(a, x)})

flag_is_set(a, b) == BitAnd(a, b) = b

flag_set(a, b) == BitOr(a, b)

flag_clear(a, b) == BitAnd(a, BitNot(b))

-----------------------------------------------------------------------------
(* The mesh (bmesh) and the host context                                   *)

\* Three faces: a quad facing +Z, a quad facing +X that shares an edge (vertices
\* 2 and 3) with it, and a triangle facing -Y that shares nothing with them.
Faces == {1, 2, 3}

FaceOrder == <<1, 2, 3>>

FaceVerts == <<<<1, 2, 3, 4>>, <<2, 5, 6, 3>>, <<7, 8, 9>>>>

Verts == 1..9

InitCo ==
    <<<<0, 0, 0>>, <<2, 0, 0>>, <<2, 2, 0>>, <<0, 2, 0>>, <<2, 0, -2>>, <<2, 2, -2>>,
      <<0, -2, 0>>, <<2, -2, 0>>, <<0, -2, 2>>>>

VertsOf(F) == UNION {{FaceVerts[f][i] : i \in 1..Len(FaceVerts[f])} : f \in F}

\* VEC3_ATTR_DEFAULT, the value of a freshly created attribute.
VEC3_ATTR_DEFAULT == Vec3Zero

AttrDefault ==
    [shift_flags |-> VEC3_ATTR_DEFAULT, scale_rot |-> VEC3_ATTR_DEFAULT,
     lock_uaxis |-> VEC3_ATTR_DEFAULT, lock_vaxis |-> VEC3_ATTR_DEFAULT]

UVDefault(f) == [i \in 1..Len(FaceVerts[f]) |-> <<0, 0>>]

\* face.normal of a flat face, from its first three corners.
FaceNormal(co, f) ==
    LET fv == FaceVerts[f]
    IN  Normalize(Cross(Sub3(co[fv[2]], co[fv[1]]), Sub3(co[fv[3]], co[fv[2]])))

\* Matrix.to_quaternion of matrix_world: its rotation part.
rot_world(e) == e.matrix_world.rs

\* The names of ATTRS in the order the dict is iterated: Nail_ShiftFlags,
\* Nail_ScaleRot, Nail_LockUAxis, Nail_LockVAxis.
ATTRS == <<"shift_flags", "scale_rot", "lock_uaxis", "lock_vaxis">>

SeqRange(q) == {q[i] : i \in 1..Len(q)}

\* NailMesh.is_nail_mesh: a UV layer exists and each of the four attributes
\* exists as a per-face float vector (m.layers); m.foreign holds the names
\* that exist with another domain or type.
is_nail_mesh(m) == m.uv_layers /\ \A name \in SeqRange(ATTRS) : name \in m.layers

RECURSIVE init_attrs_from(_, _)
\* The loop of init_attrs from the i-th attribute on: a missing layer is
\* created unless its name exists with the wrong domain or type, in which
\* case the loop raises with the layers created so far in place.
init_attrs_from(m, i) ==
    IF i > Len(ATTRS)
    THEN [mesh |-> m, raised |-> FALSE]
    ELSE IF ATTRS[i] \in m.layers
    THEN init_attrs_from(m, i + 1)
    ELSE IF ATTRS[i] \in m.foreign
    THEN [mesh |-> m, raised |-> TRUE]
    ELSE init_attrs_from([m EXCEPT !.layers = @ \cup {ATTRS[i]}], i + 1)

\* NailMesh.init_attrs on the bmesh m: the UV layer is created when there is
\* none, then the attributes (new layers hold the default value).
init_attrs_raising(m) == init_attrs_from([m EXCEPT !.uv_layers = TRUE], 1)

\* NailMesh.init_attrs, called by a read-write __enter__, on a mesh without
\* attributes of the wrong domain or type.
init_attrs(m) == init_attrs_raising(m).mesh

-----------------------------------------------------------------------------
(* unpack_face_data and the UV axes                                        *)

\* The stored attributes of a face after unpack_face_data's writes: all-zero
\* locked axes become RIGHT_VECTORS[0] / UP_VECTORS[0], a zero scale becomes 1.
unpack_writes(a) ==
    [a EXCEPT
        !.lock_uaxis = IF a.lock_uaxis = VEC3_ATTR_DEFAULT THEN RIGHT_VECTORS[1] ELSE @,
        !.lock_vaxis = IF a.lock_vaxis = VEC3_ATTR_DEFAULT THEN UP_VECTORS[1] ELSE @,
        !.scale_rot = <<IF isclose(@[1], 0) THEN 1 ELSE @[1],
                        IF isclose(@[2], 0) THEN 1 ELSE @[2], @[3]>>]

\* unpack_face_data without its test of the ENABLED flag.
unpack_face_data_unconditional(m, e, face) ==
    LET a0 == m.attrs[face]
        flags == a0.shift_flags[3]
        a == unpack_writes(a0)
        world_space == ~flag_is_set(flags, TCFLAG_OBJECT_SPACE)
        n0 == FaceNormal(m.co, face)
    IN  [ok |-> TRUE,
         attr |-> a,
         shift |-> <<a.shift_flags[1], a.shift_flags[2]>>,
         scale |-> <<a.scale_rot[1], a.scale_rot[2]>>,
         rotation |-> a.scale_rot[3],
         flags |-> flags,
         world_space |-> world_space,
         align_face |-> flag_is_set(flags, TCFLAG_ALIGN_FACE),
         align_locked |-> flag_is_set(flags, TCFLAG_ALIGN_LOCKED),
         normal |-> IF world_space THEN MatVec(rot_world(e), n0) ELSE n0]

\* unpack_face_data(face): [ok |-> FALSE] stands for None.
unpack_face_data(m, e, face) ==
    LET a0 == m.attrs[face]
        flags == a0.shift_flags[3]
        a == unpack_writes(a0)
        world_space == ~flag_is_set(flags, TCFLAG_OBJECT_SPACE)
        n0 == FaceNormal(m.co, face)
    IN  IF ~flag_is_set(flags, TCFLAG_ENABLED)
        THEN [ok |-> FALSE, attr |-> a0]
        ELSE [ok |-> TRUE,
              attr |-> a,
              shift |-> <<a.shift_flags[1], a.shift_flags[2]>>,
              scale |-> <<a.scale_rot[1], a.scale_rot[2]>>,
              rotation |-> a.scale_rot[3],
              flags |-> flags,
              world_space |-> world_space,
              align_face |-> flag_is_set(flags, TCFLAG_ALIGN_FACE),
              align_locked |-> flag_is_set(flags, TCFLAG_ALIGN_LOCKED),
              normal |-> IF world_space THEN MatVec(rot_world(e), n0) ELSE n0]

get_axis_aligned_uv_axes(normal) ==
    LET orientation == face_orientation(normal)
    IN  <<RIGHT_VECTORS[orientation + 1], UP_VECTORS[orientation + 1]>>

get_face_aligned_uv_axes(normal) ==
    LET orientation == face_orientation(normal)
        vaxis0 == UP_VECTORS[orientation + 1]
        uaxis0 == Normalize(Cross(normal, vaxis0))
        vaxis == Normalize(Cross(uaxis0, normal))
    IN  <<Neg3(uaxis0), vaxis>>

get_face_uv_axes(f) ==
    IF f.align_locked
    THEN <<f.attr.lock_uaxis, f.attr.lock_vaxis>>
    ELSE IF f.align_face
    THEN get_face_aligned_uv_axes(f.normal)
    ELSE get_axis_aligned_uv_axes(f.normal)

-----------------------------------------------------------------------------
(* Projection: apply_texture                                               *)

\* A projection that adds the shift before it divides by the scale.
CornerUV_shift_before_scale(f, axes, e, co) ==
    LET vert_coord == IF f.world_space THEN AffinePoint(e.matrix_world, co) ELSE co
        uv0 == Rotate2(f.rotation, <<Dot(vert_coord, axes[1]), Dot(vert_coord, axes[2])>>)
    IN  <<Div(Whole(uv0[1]) + f.shift[1], f.scale[1]),
          Div(Whole(uv0[2]) + f.shift[2], f.scale[2])>>

\* A projection that takes every vertex to world space.
CornerUV_in_world_space(f, axes, e, co) ==
    LET vert_coord == AffinePoint(e.matrix_world, co)
        uv0 == Rotate2(f.rotation, <<Dot(vert_coord, axes[1]), Dot(vert_coord, axes[2])>>)
    IN  <<Div(Whole(uv0[1]), f.scale[1]) + f.shift[1],
          Div(Whole(uv0[2]), f.scale[2]) + f.shift[2]>>

\* The UV of one corner before wrapping (lines 1926-1934).
CornerUV(f, axes, e, co) ==
    LET vert_coord == IF f.world_space THEN AffinePoint(e.matrix_world, co) ELSE co
        uv0 == Rotate2(f.rotation, <<Dot(vert_coord, axes[1]), Dot(vert_coord, axes[2])>>)
    IN  <<Div(Whole(uv0[1]), f.scale[1]) + f.shift[1],
          Div(Whole(uv0[2]), f.scale[2]) + f.shift[2]>>

\* A wrap that brings every corner into [0,1) on its own.
WrapUVs_each_corner(uvs) ==
    [i \in 1..Len(uvs) |-> <<frac(uvs[i][1]), frac(uvs[i][2])>>]

\* The wrap of a face's island (lines 1937-1942).
WrapUVs(uvs) ==
    LET coord0 == uvs[1]
        diff_coord0 == <<frac(coord0[1]) - coord0[1], frac(coord0[2]) - coord0[2]>>
    IN  [i \in 1..Len(uvs) |-> <<uvs[i][1] + diff_coord0[1], uvs[i][2] + diff_coord0[2]>>]

\* apply_texture_one_face after unpack_face_data returned f (lines 1919-1942).
apply_texture_unpacked(f, m, e, face) ==
    LET axes == get_face_uv_axes(f)
        fv == FaceVerts[face]
        uvs == [i \in 1..Len(fv) |-> CornerUV(f, axes, e, m.co[fv[i]])]
    IN  IF ~f.ok
        THEN [attr |-> m.attrs[face], uv |-> m.uv[face]]
        ELSE [attr |-> f.attr, uv |-> IF e.wrap_uvs THEN WrapUVs(uvs) ELSE uvs]

\* apply_texture_one_face: the face's attributes and corner UVs afterwards.
apply_texture_one_face(m, e, face) ==
    apply_texture_unpacked(unpack_face_data(m, e, face), m, e, face)

\* The dispatch with auto-apply treated like a user-invoked apply.
apply_texture_faces_selected_only(e, auto_apply) ==
    {face \in Faces : Len(FaceVerts[face]) # 0 /\ (e.editmode => face \in e.fsel)}

\* The faces apply_texture hands to apply_texture_one_face (lines 1882-1909).
apply_texture_faces(e, auto_apply) ==
    LET apply_mode == IF e.editmode THEN (IF auto_apply THEN 1 ELSE 2) ELSE 0
    IN  {face \in Faces :
            /\ Len(FaceVerts[face]) # 0
            /\ apply_mode = 2 => face \in e.fsel
            /\ apply_mode = 1 =>
                 (face \in e.fsel \/ \E v \in VertsOf({face}) : v \in e.vsel)}

apply_texture(m, e, auto_apply) ==
    LET handed == apply_texture_faces(e, auto_apply)
        r == [face \in Faces |->
                 IF face \in handed
                 THEN apply_texture_one_face(m, e, face)
                 ELSE [attr |-> m.attrs[face], uv |-> m.uv[face]]]
    IN  [m EXCEPT !.attrs = [face \in Faces |-> r[face].attr],
                  !.uv = [face \in Faces |-> r[face].uv]]

-----------------------------------------------------------------------------
(* TextureConfig (the in-memory record): None is <<>>, a set value v is <<v>> *)

None == <<>>

Some(v) == <<v>>

new_unset ==
    [shift |-> None, scale |-> None, rotation |-> None, flags |-> 0, flags_set |-> 0,
     uaxis |-> None, vaxis |-> None, multiple_faces |-> FALSE]

new_default ==
    [new_unset EXCEPT !.flags = 0, !.flags_set = TCFLAG_ALL, !.shift = Some(<<0, 0>>),
                      !.scale = Some(<<1, 1>>), !.rotation = Some(0)]

\* A write that stores all of tc.flags, whether or not the bits are in flags_set.
set_texture_config_one_face_all_flags(tc, a) ==
    [shift_flags |-> <<IF tc.shift # None THEN tc.shift[1][1] ELSE a.shift_flags[1],
                       IF tc.shift # None THEN tc.shift[1][2] ELSE a.shift_flags[2],
                       tc.flags>>,
     scale_rot |-> <<IF tc.scale # None THEN tc.scale[1][1] ELSE a.scale_rot[1],
                     IF tc.scale # None THEN tc.scale[1][2] ELSE a.scale_rot[2],
                     IF tc.rotation # None THEN tc.rotation[1] ELSE a.scale_rot[3]>>,
     lock_uaxis |-> IF tc.uaxis # None THEN tc.uaxis[1] ELSE a.lock_uaxis,
     lock_vaxis |-> IF tc.vaxis # None THEN tc.vaxis[1] ELSE a.lock_vaxis]

\* set_texture_config_one_face: the face's attributes afterwards.
set_texture_config_one_face(tc, a) ==
    LET flags == a.shift_flags[3]
        new_flags == BitOr(BitAnd(flags, BitNot(tc.flags_set)), BitAnd(tc.flags, tc.flags_set))
        sh == IF tc.shift # None THEN tc.shift[1] ELSE <<a.shift_flags[1], a.shift_flags[2]>>
        sc == IF tc.scale # None THEN tc.scale[1] ELSE <<a.scale_rot[1], a.scale_rot[2]>>
        ro == IF tc.rotation # None THEN tc.rotation[1] ELSE a.scale_rot[3]
    IN  [shift_flags |-> <<sh[1], sh[2], new_flags>>,
         scale_rot |-> <<sc[1], sc[2], ro>>,
         lock_uaxis |-> IF tc.uaxis # None THEN tc.uaxis[1] ELSE a.lock_uaxis,
         lock_vaxis |-> IF tc.vaxis # None THEN tc.vaxis[1] ELSE a.lock_vaxis]

\* The faces set_texture_config, get_texture_config and locked_transform visit
\* (only_selected = True): the selected ones in edit mode, all of them otherwise.
VisitedFaces(e) == IF e.editmode THEN e.fsel ELSE Faces

set_texture_config(m, e, tc) ==
    [m EXCEPT !.attrs = [face \in Faces |->
        IF face \in VisitedFaces(e) THEN set_texture_config_one_face(tc, @[face]) ELSE @[face]]]

\* A merge in which every NailFace overwrites what the faces before it left.
get_texture_config_unpacked_overwriting(f, tc) ==
    IF ~f.ok
    THEN [ok |-> FALSE, tc |-> tc, attr |-> f.attr]
    ELSE [ok |-> TRUE, attr |-> f.attr,
          tc |-> [tc EXCEPT !.flags = f.flags, !.flags_set = TCFLAG_ALL,
                            !.shift = Some(f.shift), !.scale = Some(f.scale),
                            !.rotation = Some(f.rotation),
                            !.uaxis = Some(f.attr.lock_uaxis),
                            !.vaxis = Some(f.attr.lock_vaxis)]]

\* get_texture_config_one_face after unpack_face_data returned f (lines 1843-1877).
get_texture_config_unpacked(f, tc) ==
    LET flag_diff == BitXor(tc.flags, f.flags)
        keep(x, y) == IF x # None /\ x[1] # y THEN None ELSE x
    IN  IF ~f.ok
        THEN [ok |-> FALSE, tc |-> tc, attr |-> f.attr]
        ELSE [ok |-> TRUE,
              attr |-> f.attr,
              tc |-> IF tc.multiple_faces
                     THEN [tc EXCEPT !.flags = BitAnd(@, BitNot(flag_diff)),
                                     !.flags_set = BitAnd(@, BitNot(flag_diff)),
                                     !.shift = keep(@, f.shift),
                                     !.scale = keep(@, f.scale),
                                     !.rotation = keep(@, f.rotation),
                                     !.uaxis = keep(@, f.attr.lock_uaxis),
                                     !.vaxis = keep(@, f.attr.lock_vaxis)]
                     ELSE [tc EXCEPT !.flags = f.flags,
                                     !.flags_set = TCFLAG_ALL,
                                     !.shift = Some(f.shift),
                                     !.scale = Some(f.scale),
                                     !.rotation = Some(f.rotation),
                                     !.uaxis = Some(f.attr.lock_uaxis),
                                     !.vaxis = Some(f.attr.lock_vaxis)]]

\* get_texture_config_one_face(face, tc): the merged tc, whether the face was
\* enabled, and the face's attributes after unpack_face_data's writes.
get_texture_config_one_face(m, e, face, tc) ==
    get_texture_config_unpacked(unpack_face_data(m, e, face), tc)

RECURSIVE get_texture_config_from(_, _, _, _, _, _)
\* A loop that sets multiple_faces for a face that is not a NailFace too.
get_texture_config_step_counting_disabled(r, m, e, order, i) ==
    get_texture_config_from([m EXCEPT !.attrs[order[i]] = r.attr], e,
                            [r.tc EXCEPT !.multiple_faces = TRUE], TRUE, order, i + 1)

\* One iteration of get_texture_config's loop, r being what
\* get_texture_config_one_face returned for the face order[i].
get_texture_config_step(r, m, e, order, i) ==
    get_texture_config_from([m EXCEPT !.attrs[order[i]] = r.attr], e,
                            IF r.ok THEN [r.tc EXCEPT !.multiple_faces = TRUE] ELSE r.tc,
                            TRUE, order, i + 1)

\* get_texture_config over the faces order[i..], in bm.faces order: the mesh
\* (unpack_face_data writes to the faces it reads), the merged tc, and
\* out_any_selected.
get_texture_config_from(m, e, tc, any, order, i) ==
    IF i > Len(order)
    THEN [mesh |-> m, tc |-> tc, any_selected |-> any]
    ELSE IF order[i] \notin VisitedFaces(e)
    THEN get_texture_config_from(m, e, tc, any, order, i + 1)
    ELSE get_texture_config_step(get_texture_config_one_face(m, e, order[i], tc), m, e, order, i)

get_texture_config(m, e, tc, any) == get_texture_config_from(m, e, tc, any, FaceOrder, 1)

-----------------------------------------------------------------------------
(* Texture-locked transform                                                *)

\* The shift update and the stores (lines 2050-2055), u holding the axes,
\* scale and flags the branch before it left behind.
locked_transform_store(f, translation, u) ==
    LET shift == <<frac_n1to1(f.shift[1] - Div(Whole(Dot(translation, u.uaxis)), u.scale[1])),
                   frac_n1to1(f.shift[2] - Div(Whole(Dot(translation, u.vaxis)), u.scale[2]))>>
    IN  [shift_flags |-> <<shift[1], shift[2], u.flags>>,
         scale_rot |-> <<u.scale[1], u.scale[2], f.rotation>>,
         lock_uaxis |-> IF u.locks THEN u.uaxis ELSE f.attr.lock_uaxis,
         lock_vaxis |-> IF u.locks THEN u.vaxis ELSE f.attr.lock_vaxis]

\* The alignment decision with a locked branch that leaves ALIGN_FACE as it was.
locked_transform_align_keeping_face(f, uaxis, vaxis, scale, normal) ==
    LET aa == get_axis_aligned_uv_axes(normal)
        fa == get_face_aligned_uv_axes(normal)
        is_aa == vec3_isclose(uaxis, aa[1]) /\ vec3_isclose(vaxis, aa[2])
        is_fa == vec3_isclose(uaxis, fa[1]) /\ vec3_isclose(vaxis, fa[2])
    IN  [uaxis |-> uaxis, vaxis |-> vaxis, scale |-> scale,
         flags |->
            IF is_aa
            THEN flag_clear(flag_clear(f.flags, TCFLAG_ALIGN_LOCKED), TCFLAG_ALIGN_FACE)
            ELSE IF is_fa
            THEN flag_set(flag_clear(f.flags, TCFLAG_ALIGN_LOCKED), TCFLAG_ALIGN_FACE)
            ELSE flag_set(f.flags, TCFLAG_ALIGN_LOCKED),
         locks |-> ~is_aa /\ ~is_fa]

\* An alignment decision that tries the face-aligned basis first.
locked_transform_align_face_first(f, uaxis, vaxis, scale, normal) ==
    LET aa == get_axis_aligned_uv_axes(normal)
        fa == get_face_aligned_uv_axes(normal)
        is_aa == vec3_isclose(uaxis, aa[1]) /\ vec3_isclose(vaxis, aa[2])
        is_fa == vec3_isclose(uaxis, fa[1]) /\ vec3_isclose(vaxis, fa[2])
    IN  [uaxis |-> uaxis, vaxis |-> vaxis, scale |-> scale,
         flags |->
            IF is_fa
            THEN flag_set(flag_clear(f.flags, TCFLAG_ALIGN_LOCKED), TCFLAG_ALIGN_FACE)
            ELSE IF is_aa
            THEN flag_clear(flag_clear(f.flags, TCFLAG_ALIGN_LOCKED), TCFLAG_ALIGN_FACE)
            ELSE flag_clear(flag_set(f.flags, TCFLAG_ALIGN_LOCKED), TCFLAG_ALIGN_FACE),
         locks |-> ~is_aa /\ ~is_fa]

\* The alignment decision of the rotate/scale branch (lines 2017-2046), given
\* the transformed and normalised axes, the new scale and the new normal.
locked_transform_align(f, uaxis, vaxis, scale, normal) ==
    LET aa == get_axis_aligned_uv_axes(normal)
        fa == get_face_aligned_uv_axes(normal)
        is_aa == vec3_isclose(uaxis, aa[1]) /\ vec3_isclose(vaxis, aa[2])
        is_fa == vec3_isclose(uaxis, fa[1]) /\ vec3_isclose(vaxis, fa[2])
    IN  [uaxis |-> uaxis, vaxis |-> vaxis, scale |-> scale,
         flags |->
            IF is_aa
            THEN flag_clear(flag_clear(f.flags, TCFLAG_ALIGN_LOCKED), TCFLAG_ALIGN_FACE)
            ELSE IF is_fa
            THEN flag_set(flag_clear(f.flags, TCFLAG_ALIGN_LOCKED), TCFLAG_ALIGN_FACE)
            ELSE flag_clear(flag_set(f.flags, TCFLAG_ALIGN_LOCKED), TCFLAG_ALIGN_FACE),
         locks |-> ~is_aa /\ ~is_fa]

\* The rotate/scale branch of locked_transform_one_face (lines 1992-2046): the
\* axes, scale and flags it leaves for the shift update.
locked_transform_update(f, axes, rs_mat) ==
    IF rs_mat = Identity3
    THEN [uaxis |-> axes[1], vaxis |-> axes[2], scale |-> f.scale, flags |-> f.flags,
          locks |-> FALSE]
    ELSE locked_transform_align(f,
            Normalize(MatVec(rs_mat, axes[1])),
            Normalize(MatVec(rs_mat, axes[2])),
            <<f.scale[1] * Length(MatVec(rs_mat, axes[1])),
              f.scale[2] * Length(MatVec(rs_mat, axes[2]))>>,
            Normalize(MatVec(rs_mat, f.normal)))

\* locked_transform_one_face after unpack_face_data returned f and the face's
\* matrix was picked by its space (lines 1984-2055).
locked_transform_axes(f, axes, rs_mat, translation) ==
    locked_transform_store(f, translation, locked_transform_update(f, axes, rs_mat))

locked_transform_unpacked(f, a0, obj_t_vec, obj_rs_mat, world_t_vec, world_rs_mat) ==
    IF ~f.ok
    THEN a0
    ELSE locked_transform_axes(f, get_face_uv_axes(f),
            IF f.world_space THEN world_rs_mat ELSE obj_rs_mat,
            IF f.world_space THEN world_t_vec ELSE obj_t_vec)

\* locked_transform_one_face: the face's attributes afterwards.
locked_transform_one_face(m, e, face, obj_t_vec, obj_rs_mat, world_t_vec, world_rs_mat) ==
    locked_transform_unpacked(unpack_face_data(m, e, face), m.attrs[face],
                              obj_t_vec, obj_rs_mat, world_t_vec, world_rs_mat)

\* The vertices bmesh.ops.transform moves: those of the visited faces.
locked_transform_verts(e) == VertsOf(VisitedFaces(e))

\* A locked_transform that moves the vertices by mat with its translation
\* still zeroed.
locked_transform_without_translation(m, e, mat, world_mat) ==
    [m EXCEPT
        !.attrs = [face \in Faces |->
            IF face \in VisitedFaces(e)
            THEN locked_transform_one_face(m, e, face, mat.t, mat.rs, world_mat.t, world_mat.rs)
            ELSE @[face]],
        !.co = [v \in Verts |->
            IF v \in locked_transform_verts(e)
            THEN AffinePoint(Affine(mat.rs, Vec3Zero), @[v])
            ELSE @[v]]]

\* locked_transform(mat, world_mat): every visited face is rewritten, then the
\* vertices of the visited faces are moved by mat (translation put back).
locked_transform(m, e, mat, world_mat) ==
    [m EXCEPT
        !.attrs = [face \in Faces |->
            IF face \in VisitedFaces(e)
            THEN locked_transform_one_face(m, e, face, mat.t, mat.rs, world_mat.t, world_mat.rs)
            ELSE @[face]],
        !.co = [v \in Verts |->
            IF v \in locked_transform_verts(e) THEN AffinePoint(mat, @[v]) ELSE @[v]]]

\* Whether the shift update divides by zero (lines 2050-2051): the scale the
\* rotate/scale branch stored has a zero component.
locked_transform_raises(u) == u.scale[1] = 0 \/ u.scale[2] = 0

\* The face's attributes when the shift update raises: scale, flags and locked
\* axes are stored (lines 2005, 2043-2046), the shift is not.
locked_transform_stored_before_raise(f, u) ==
    [shift_flags |-> <<f.shift[1], f.shift[2], u.flags>>,
     scale_rot |-> <<u.scale[1], u.scale[2], f.rotation>>,
     lock_uaxis |-> IF u.locks THEN u.uaxis ELSE f.attr.lock_uaxis,
     lock_vaxis |-> IF u.locks THEN u.vaxis ELSE f.attr.lock_vaxis]

\* unpack_face_data's test of the ENABLED flag.
IsEnabledFace(m, face) == flag_is_set(m.attrs[face].shift_flags[3], TCFLAG_ENABLED)

RECURSIVE locked_transform_from(_, _, _, _, _)
\* One face of locked_transform's loop, f being what unpack_face_data returned
\* for the face FaceOrder[i] and u what the rotate/scale branch left.
locked_transform_face(f, u, m, e, mat, world_mat, i) ==
    IF locked_transform_raises(u)
    THEN [mesh |-> [m EXCEPT !.attrs[FaceOrder[i]] = locked_transform_stored_before_raise(f, u)],
          raised |-> TRUE]
    ELSE locked_transform_from(
            [m EXCEPT !.attrs[FaceOrder[i]] =
                locked_transform_store(f, IF f.world_space THEN world_mat.t ELSE mat.t, u)],
            e, mat, world_mat, i + 1)

\* The face FaceOrder[i] after unpack_face_data returned f for it.
locked_transform_next(f, m, e, mat, world_mat, i) ==
    locked_transform_face(f,
        locked_transform_update(f, get_face_uv_axes(f),
                                IF f.world_space THEN world_mat.rs ELSE mat.rs),
        m, e, mat, world_mat, i)

\* locked_transform over the faces FaceOrder[i..]: the bmesh afterwards and
\* whether a face raised; the vertices move after the last face.
locked_transform_from(m, e, mat, world_mat, i) ==
    IF i > Len(FaceOrder)
    THEN [mesh |-> [m EXCEPT !.co = [v \in Verts |->
                        IF v \in locked_transform_verts(e) THEN AffinePoint(mat, @[v]) ELSE @[v]]],
          raised |-> FALSE]
    ELSE IF FaceOrder[i] \notin VisitedFaces(e) \/ ~IsEnabledFace(m, FaceOrder[i])
    THEN locked_transform_from(m, e, mat, world_mat, i + 1)
    ELSE locked_transform_next(unpack_face_data(m, e, FaceOrder[i]), m, e, mat, world_mat, i)

-----------------------------------------------------------------------------
(* Registration, awake / sleep, preferences                                *)
(* The lifecycle record l holds nail_is_awake, the handlers and keymaps    *)
(* the addon has installed, the preferences, and others: the number of     *)
(* NailMesh objects in bpy.data.objects besides the modelled mesh.  h is   *)
(* the record of the auto-apply handler's attributes.                      *)

\* set_handler_enabled appending without asking whether func is in the list.
set_handler_enabled_always_appending(count, enable) ==
    IF enable
    THEN count + 1
    ELSE IF count > 0 THEN count - 1 ELSE count

\* set_handler_enabled(handler_list, func, enable) on the number of times
\* func occurs in handler_list: append adds one occurrence, remove takes the
\* first one away.
set_handler_enabled(count, enable) ==
    IF enable
    THEN IF count = 0 THEN count + 1 ELSE count
    ELSE IF count > 0 THEN count - 1 ELSE count

\* depsgraph_handler is the number of times on_post_depsgraph_update occurs
\* in bpy.app.handlers.depsgraph_update_post.
enable_post_depsgraph_update_handler(l, enable) ==
    [l EXCEPT !.depsgraph_handler = set_handler_enabled(@, enable)]

auto_apply_updated(l) ==
    enable_post_depsgraph_update_handler(l, l.nail_is_awake /\ l.auto_apply)

update_rate_updated(l, h) == [h EXCEPT !.update_interval = l.update_rate]

\* add_keymaps / remove_keymaps with an addon keyconfig present.
use_locked_transform_keymaps_updated(l) ==
    [l EXCEPT !.keymaps = l.nail_is_awake /\ l.use_locked_transform_keymaps]

any_nail_meshes(m, l) == is_nail_mesh(m) \/ l.others > 0

nail_wake(l, h) ==
    IF l.nail_is_awake
    THEN [ls |-> l, hs |-> h]
    ELSE [ls |-> use_locked_transform_keymaps_updated(
                    auto_apply_updated([l EXCEPT !.nail_is_awake = TRUE, !.draw_handler = TRUE])),
          hs |-> update_rate_updated(l, h)]

\* nail_sleep leaving the depsgraph handler installed.
nail_sleep_keeping_handler(l) ==
    IF ~l.nail_is_awake
    THEN l
    ELSE [l EXCEPT !.nail_is_awake = FALSE, !.draw_handler = FALSE, !.keymaps = FALSE]

nail_sleep(l) ==
    IF ~l.nail_is_awake
    THEN l
    ELSE enable_post_depsgraph_update_handler(
             [l EXCEPT !.nail_is_awake = FALSE, !.draw_handler = FALSE, !.keymaps = FALSE],
             FALSE)

nail_wake_if_needed(m, l, h) ==
    IF ~l.nail_is_awake /\ any_nail_meshes(m, l)
    THEN nail_wake(l, h)
    ELSE [ls |-> l, hs |-> h]

on_post_load(m, l, h) ==
    IF any_nail_meshes(m, l)
    THEN nail_wake(l, h)
    ELSE [ls |-> nail_sleep(l), hs |-> h]

unregister(l) ==
    enable_post_depsgraph_update_handler(
        [l EXCEPT !.nail_is_awake = FALSE, !.post_register = FALSE, !.post_load = FALSE,
                  !.draw_handler = FALSE, !.keymaps = FALSE, !.registered = FALSE],
        FALSE)

\* register on an addon that is not registered.
register(l) == [l EXCEPT !.registered = TRUE, !.post_load = TRUE, !.post_register = TRUE]

-----------------------------------------------------------------------------
(* Operators (bpy.types.Operator.execute / invoke) on the mesh in edit mode *)

\* with NailMesh(obj) as nm, read-write: __enter__ tags the mesh (init_attrs)
\* and __exit__ writes the bmesh back.
set_or_apply_selected_faces(m, e, tc, set, apply, only_nailmeshes) ==
    LET ok == IF only_nailmeshes THEN is_nail_mesh(m) ELSE TRUE
        m1 == init_attrs(m)
        m2 == IF set THEN set_texture_config(m1, e, tc) ELSE m1
        m3 == IF apply THEN apply_texture(m2, e, FALSE) ELSE m2
    IN  IF ok THEN m3 ELSE m

\* The faces a user-invoked apply hands to the projection, when it runs at all.
HandedBy(m, e, apply, only_nailmeshes, auto_apply) ==
    IF apply /\ (only_nailmeshes => is_nail_mesh(m))
    THEN <<apply_texture_faces(e, auto_apply)>>
    ELSE <<>>

\* shared_poll: context.mode == 'EDIT_MESH' (and face selection mode).
shared_poll(e, only_face_select) ==
    e.editmode /\ (only_face_select => e.select_mode = "FACE")

\* The step's record: the operation, the faces apply_texture handed to the
\* projection (None when apply_texture did not run), the operation's matrices.
\* wake tells whether the operator ends in nail_wake_if_needed.
Done(op, handed, arg, wake) ==
    /\ ls.registered
    /\ last' = [op |-> op, handed |-> handed, arg |-> arg]
    /\ steps' = steps + 1
    /\ \E w \in {IF wake THEN nail_wake_if_needed(mesh', ls, hs) ELSE [ls |-> ls, hs |-> hs]} :
        ls' = w.ls /\ hs' = w.hs

\* A mark that writes the whole default config along with ENABLED.
mark_nailface_tc_default == [new_default EXCEPT !.flags = TCFLAG_ENABLED]

\* AURYCAT_OT_nail_mark_nailface.execute
mark_nailface_tc == [new_unset EXCEPT !.flags_set = TCFLAG_ENABLED, !.flags = TCFLAG_ENABLED]

\* A clear that writes all four flags.
clear_nailface_tc_all_flags == [new_unset EXCEPT !.flags_set = TCFLAG_ALL]

\* AURYCAT_OT_nail_clear_nailface.execute
clear_nailface_tc == [new_unset EXCEPT !.flags_set = TCFLAG_ENABLED]

\* A reset that does not take ENABLED out of flags_set.
reset_tc_with_enabled == new_default

\* AURYCAT_OT_nail_reset_texture_config.execute
reset_tc == [new_default EXCEPT !.flags_set = BitAnd(@, BitNot(TCFLAG_ENABLED))]

\* AURYCAT_OT_nail_edit_texture_config.execute: the TextureConfig built from
\* the operator's properties, and whether anything is written at all.
edit_writes(p) ==
    p.set_shift \/ p.set_scale \/ p.set_rotation \/ p.space_align # "unset" \/ p.uv_align # "unset"

edit_tc(p) ==
    [new_unset EXCEPT
        !.shift = IF p.set_shift THEN Some(p.shift) ELSE None,
        !.scale = IF p.set_scale THEN Some(p.scale) ELSE None,
        !.rotation = IF p.set_rotation THEN Some(p.rotation) ELSE None,
        !.flags_set = (IF p.space_align # "unset" THEN TCFLAG_OBJECT_SPACE ELSE 0)
                      + (IF p.uv_align # "unset" THEN TCFLAG_ALIGN_FACE + TCFLAG_ALIGN_LOCKED ELSE 0),
        !.flags = (IF p.space_align = "object" THEN TCFLAG_OBJECT_SPACE ELSE 0)
                  + (IF p.uv_align = "face" THEN TCFLAG_ALIGN_FACE ELSE 0)]

edit_execute(m, e, p) ==
    IF edit_writes(p)
    THEN set_or_apply_selected_faces(m, e, edit_tc(p), TRUE, TRUE, TRUE)
    ELSE m

\* mesh_has_any_selected_faces
mesh_has_any_selected_faces(e) == (e.active # 0 /\ e.active \in e.fsel) \/ e.fsel # {}

\* TextureConfig.from_selected_faces: a tagged mesh is read through a
\* read-only NailMesh, whose bmesh in edit mode is the mesh's own.
from_selected_faces(m, e) ==
    IF is_nail_mesh(m)
    THEN get_texture_config(m, e, new_unset, FALSE)
    ELSE [mesh |-> m, tc |-> new_unset, any_selected |-> mesh_has_any_selected_faces(e)]

\* The operator properties invoke fills in from the merged TextureConfig.
edit_invoke_props(tc) ==
    [set_shift |-> tc.shift # None,
     shift |-> IF tc.shift # None THEN tc.shift[1] ELSE <<0, 0>>,
     set_scale |-> tc.scale # None,
     scale |-> IF tc.scale # None THEN tc.scale[1] ELSE <<1, 1>>,
     set_rotation |-> tc.rotation # None,
     rotation |-> IF tc.rotation # None THEN tc.rotation[1] ELSE 0,
     space_align |->
        IF flag_is_set(tc.flags_set, TCFLAG_OBJECT_SPACE)
        THEN (IF flag_is_set(tc.flags, TCFLAG_OBJECT_SPACE) THEN "object" ELSE "world")
        ELSE "unset",
     uv_align |->
        IF flag_is_set(tc.flags_set, TCFLAG_ALIGN_FACE) /\ flag_is_set(tc.flags_set, TCFLAG_ALIGN_LOCKED)
        THEN (IF flag_is_set(tc.flags, TCFLAG_ALIGN_FACE) THEN "face"
              ELSE IF flag_is_set(tc.flags, TCFLAG_ALIGN_LOCKED) THEN "unset"
              ELSE "axis")
        ELSE "unset"]

\* AURYCAT_OT_nail_edit_texture_config.invoke after from_selected_faces
\* returned r (lines 745-802); it ends in execute.
\* An invoke that goes on to mark the faces when none is selected.
edit_invoke_selected_without_return(r, e) ==
    LET enable_tc == [new_default EXCEPT !.flags = TCFLAG_ENABLED]
    IN  IF ~r.tc.multiple_faces
        THEN edit_execute(set_or_apply_selected_faces(r.mesh, e, enable_tc, TRUE, TRUE, FALSE),
                          e, edit_invoke_props(enable_tc))
        ELSE edit_execute(r.mesh, e, edit_invoke_props(r.tc))

edit_invoke_selected(r, e) ==
    LET enable_tc == [new_default EXCEPT !.flags = TCFLAG_ENABLED]
    IN  IF ~r.any_selected
        THEN r.mesh
        ELSE IF ~r.tc.multiple_faces
        THEN edit_execute(set_or_apply_selected_faces(r.mesh, e, enable_tc, TRUE, TRUE, FALSE),
                          e, edit_invoke_props(enable_tc))
        ELSE edit_execute(r.mesh, e, edit_invoke_props(r.tc))

edit_invoke(m, e) == edit_invoke_selected(from_selected_faces(m, e), e)

\* What invoke returns and reports (lines 741-743, 802).
edit_invoke_result(r) ==
    IF ~r.any_selected
    THEN [result |-> "CANCELLED", report |-> Some(<<"WARNING", "No selected faces">>)]
    ELSE [result |-> "FINISHED", report |-> None]

\* The faces invoke hands to the projection: through the marking of the faces
\* when none of them is a NailFace, through execute otherwise.
edit_invoke_handed(r, e) ==
    IF ~r.any_selected
    THEN None
    ELSE IF ~r.tc.multiple_faces
    THEN Some(apply_texture_faces(e, FALSE))
    ELSE HandedBy(r.mesh, e, edit_writes(edit_invoke_props(r.tc)), TRUE, FALSE)

\* TextureConfig.from_active_face after get_texture_config_one_face returned r
\* for the active face: [ok |-> FALSE] is an error message.
from_active_face_read(r, m, e) ==
    IF ~r.ok
    THEN [ok |-> FALSE, mesh |-> m]
    ELSE [ok |-> TRUE, mesh |-> [m EXCEPT !.attrs[e.active] = r.attr], tc |-> r.tc]

from_active_face(m, e) ==
    IF ~e.editmode \/ ~is_nail_mesh(m) \/ e.active = 0 \/ e.active \notin e.fsel
    THEN [ok |-> FALSE, mesh |-> m]
    ELSE from_active_face_read(get_texture_config_one_face(m, e, e.active, new_unset), m, e)

\* A copy that leaves ENABLED in flags_set.
copy_active_config_with_enabled(r, e) ==
    IF ~r.ok
    THEN r.mesh
    ELSE set_or_apply_selected_faces(r.mesh, e, r.tc, TRUE, TRUE, TRUE)

\* AURYCAT_OT_nail_copy_active_to_selected.execute after from_active_face returned r.
copy_active_config(r, e) ==
    IF ~r.ok
    THEN r.mesh
    ELSE set_or_apply_selected_faces(r.mesh, e,
            [r.tc EXCEPT !.flags_set = BitAnd(@, BitNot(TCFLAG_ENABLED))], TRUE, TRUE, TRUE)

copy_active_to_selected(m, e) == copy_active_config(from_active_face(m, e), e)

-----------------------------------------------------------------------------
(* The texture-locked transform operators                                  *)

\* Quarter turns about Z and about X (Euler / Matrix.Rotation of pi/2).
RotZ == <<<<0, -1, 0>>, <<1, 0, 0>>, <<0, 0, 1>>>>

RotX == <<<<1, 0, 0>>, <<0, 0, -1>>, <<0, 1, 0>>>>

\* Matrix.LocRotScale(translate, rotate, sc)
LocRotScale(translate, rotate, sc) == Affine(MatMul(rotate, Diagonal(sc)), translate)

\* AURYCAT_OT_nail_locked_transform.execute: the pair of matrices it hands to
\* NailMesh.locked_transform (lines 936-949).
locked_transform_op_mats(e, p) ==
    LET sc == [i \in 1..3 |-> IF isclose(p.scale[i], 0) THEN 1 ELSE p.scale[i]]
        mat == LocRotScale(p.translate, p.rotate, sc)
    IN  [mat |-> mat, world_mat |-> AffineMul(e.matrix_world, mat)]

\* compute_pivot_point, for the pivot modes whose result lies on the grid.
compute_pivot_point(m, e, pivot_mode, cursor) ==
    LET pts == {AffinePoint(e.matrix_world, m.co[v]) : v \in e.vsel}
        mn(i) == CHOOSE x \in {q[i] : q \in pts} : \A q \in pts : x <= q[i]
        mx(i) == CHOOSE x \in {q[i] : q \in pts} : \A q \in pts : x >= q[i]
    IN  IF pivot_mode = "CURSOR"
        THEN cursor
        ELSE IF pts = {} THEN Vec3Zero
        ELSE [i \in 1..3 |-> (mn(i) + mx(i)) \div 2]

\* get_op_transform_matrix of the three finalising operators.
get_op_transform_matrix(p) ==
    CASE p.kind = "translate" -> Translation(IF p.inverted_value THEN Neg3(p.value) ELSE p.value)
      [] p.kind = "rotate" ->
            Affine(IF p.inverted_value THEN Transpose(p.value) ELSE p.value, Vec3Zero)
      [] OTHER -> Affine(Diagonal(p.value), Vec3Zero)

\* plus_pivot @ orient @ op_transform @ orient.inverted() @ minus_pivot
AboutPivot(pivot, orient, op) ==
    AffineMul(Translation(pivot),
        AffineMul(Affine(orient, Vec3Zero),
            AffineMul(op,
                AffineMul(Affine(Inverted3(orient), Vec3Zero), Translation(Neg3(pivot))))))

\* SharedFinalizeInteractiveTexLockedTransform.execute: the pair of matrices it
\* hands to NailMesh.locked_transform (lines 1267-1313).
end_locked_transform_mats(m, e, p) ==
    LET op_transform == get_op_transform_matrix(p)
        world_pivot_point == compute_pivot_point(m, e, p.pivot_mode, p.cursor)
        world_to_object == AffineInverted(e.matrix_world)
        orient == MatMul(world_to_object.rs, p.orient_matrix)
        pivot_point == AffinePoint(world_to_object, world_pivot_point)
    IN  [mat |-> AboutPivot(pivot_point, orient, op_transform),
         world_mat |-> AboutPivot(world_pivot_point, p.orient_matrix, op_transform)]

\* with NailMesh(obj) as nm: nm.locked_transform(mat, world_mat)
do_locked_transform(m, e, mats) == locked_transform(init_attrs(m), e, mats.mat, mats.world_mat)

\* do_auto_apply(obj)
do_auto_apply(m, e) == apply_texture(init_attrs(m), e, TRUE)

-----------------------------------------------------------------------------
(* Bounds and the inputs the model draws                                   *)

\* Number of operations in a run.
MaxSteps == 3

\* Stored scale values on which every division of the model is exact.
ScaleGrid == {-4, -2, -1, 0, 1, 2, 4}

OnGrid(m) ==
    \A face \in Faces : m.attrs[face].scale_rot[1] \in ScaleGrid /\ m.attrs[face].scale_rot[2] \in ScaleGrid

\* matrix_world: identity, or a quarter turn about Z with a translation.
MatrixWorlds == {AffineIdentity, Affine(RotZ, <<0, 1, 0>>)}

\* Selections the host can hold: in face mode the vertices of the selected
\* faces are selected; in vertex mode a face is selected when all its vertices are.
Selection(mode, fsel, vsel, active) ==
    [select_mode |-> mode, fsel |-> fsel, vsel |-> vsel, active |-> active]

Selections ==
    {Selection("FACE", {}, {}, 0),
     Selection("FACE", {1}, VertsOf({1}), 1),
     Selection("FACE", {1, 2}, VertsOf({1, 2}), 1),
     Selection("VERT", {}, {2}, 0)}

\* Property values of the Edit Texture operator.
EditP(set_shift, shift, set_scale, scale, set_rotation, rotation, space_align, uv_align) ==
    [set_shift |-> set_shift, shift |-> shift, set_scale |-> set_scale, scale |-> scale,
     set_rotation |-> set_rotation, rotation |-> rotation,
     space_align |-> space_align, uv_align |-> uv_align]

EditProps ==
    {EditP(FALSE, <<0, 0>>, TRUE, <<2, 2>>, TRUE, 1, "unset", "unset"),
     EditP(TRUE, <<5, 0>>, FALSE, <<1, 1>>, FALSE, 0, "unset", "unset"),
     EditP(TRUE, <<1, 2>>, TRUE, <<2, 1>>, FALSE, 0, "unset", "face"),
     EditP(FALSE, <<0, 0>>, FALSE, <<1, 1>>, FALSE, 0, "object", "axis")}

\* Property values of the non-interactive Texture-Locked Transform operator.
LockedOpProps ==
    {[translate |-> <<1, 0, 0>>, rotate |-> Identity3, scale |-> <<1, 1, 1>>],
     [translate |-> <<0, 0, 0>>, rotate |-> RotZ, scale |-> <<1, 1, 1>>],
     [translate |-> <<0, 1, 0>>, rotate |-> RotX, scale |-> <<2, 2, 2>>]}

\* Property values of the finalising operators, with the pivot settings of the scene.
EndLockedProps ==
    {[kind |-> "translate", value |-> <<0, 1, 0>>, inverted_value |-> FALSE,
      orient_matrix |-> Identity3, pivot_mode |-> "CURSOR", cursor |-> Vec3Zero],
     [kind |-> "rotate", value |-> RotX, inverted_value |-> TRUE,
      orient_matrix |-> RotZ, pivot_mode |-> "CURSOR", cursor |-> <<1, 0, 0>>],
     [kind |-> "scale", value |-> <<2, 2, 2>>, inverted_value |-> FALSE,
      orient_matrix |-> Identity3, pivot_mode |-> "BOUNDING_BOX_CENTER", cursor |-> Vec3Zero]}

-----------------------------------------------------------------------------
(* The operations as actions on the mesh                                   *)

InitMesh ==
    [co |-> InitCo, attrs |-> [face \in Faces |-> AttrDefault],
     uv |-> [face \in Faces |-> UVDefault(face)],
     uv_layers |-> FALSE, layers |-> {}, foreign |-> {}]

InitEnv(sel, mw, wrap) ==
    [editmode |-> TRUE, select_mode |-> sel.select_mode, fsel |-> sel.fsel, vsel |-> sel.vsel,
     active |-> sel.active, matrix_world |-> mw, wrap_uvs |-> wrap]

\* The attributes of on_post_depsgraph_update (lines 524-527) with the host
\* state the handler reads: the registered geom_update_timer timers, the
\* interactive locked transform ("none", "running", or "stale" for a destroyed
\* operator), context.active_operator, and the mesh writes the depsgraph has
\* not reported yet (echo). seen records the applicable objects of the most
\* recent event that reached the debounce step, and owed the objects a user's
\* event listed that have not been handed to do_auto_apply since.
InitHs ==
    [update_interval |-> 0, last_operator |-> 0, last_obj_list |-> <<>>, timer_ran |-> FALSE,
     timers |-> 0, active |-> "none", active_operator |-> 0, echo |-> <<>>, seen |-> <<>>,
     owed |-> {}]

\* The lifecycle right after register() with the default preferences, in a
\* file with n NailMesh objects besides the modelled mesh.
InitLs(n) ==
    register([registered |-> FALSE, post_load |-> FALSE, post_register |-> FALSE,
              nail_is_awake |-> FALSE, depsgraph_handler |-> 0, draw_handler |-> FALSE,
              keymaps |-> FALSE, auto_apply |-> TRUE, use_locked_transform_keymaps |-> TRUE,
              update_rate |-> 0, others |-> n])

\* on_post_register on the first depsgraph event after register().
on_post_register(m, l, h) ==
    IF ~l.nail_is_awake /\ any_nail_meshes(m, l)
    THEN nail_wake([l EXCEPT !.post_register = FALSE], h)
    ELSE [ls |-> [l EXCEPT !.post_register = FALSE], hs |-> h]

\* The lifecycle of the face operations and of the auto-apply handler: the
\* file holds one more NailMesh object (object 2), so the first depsgraph
\* event after register() has woken the addon.
AwakeLs == on_post_register(InitMesh, InitLs(1), InitHs).ls

Init ==
    /\ mesh = InitMesh
    /\ \E mw \in MatrixWorlds, wrap \in BOOLEAN :
        env = InitEnv(Selection("FACE", {1}, VertsOf({1}), 1), mw, wrap)
    /\ last = [op |-> "init", handed |-> None, arg |-> None]
    /\ steps = 0
    /\ hs = InitHs
    /\ ls = AwakeLs

MarkFace ==
    /\ steps < MaxSteps
    /\ shared_poll(env, FALSE)
    /\ mesh' = set_or_apply_selected_faces(mesh, env, mark_nailface_tc, TRUE, TRUE, FALSE)
    /\ Done("mark_face", HandedBy(mesh, env, TRUE, FALSE, FALSE), None, TRUE)
    /\ UNCHANGED env

ClearFace ==
    /\ steps < MaxSteps
    /\ shared_poll(env, FALSE)
    /\ mesh' = set_or_apply_selected_faces(mesh, env, clear_nailface_tc, TRUE, FALSE, TRUE)
    /\ Done("clear_face", None, None, FALSE)
    /\ UNCHANGED env

EditInvoke ==
    /\ steps < MaxSteps
    /\ shared_poll(env, FALSE)
    /\ \E r \in {from_selected_faces(mesh, env)} :
        /\ mesh' = edit_invoke_selected(r, env)
        /\ Done("edit_invoke", edit_invoke_handed(r, env), edit_invoke_result(r),
                r.any_selected /\ ~r.tc.multiple_faces)
    /\ UNCHANGED env

EditExecute ==
    /\ steps < MaxSteps
    /\ shared_poll(env, FALSE)
    /\ \E p \in EditProps :
        /\ mesh' = edit_execute(mesh, env, p)
        /\ Done("edit", HandedBy(mesh, env, edit_writes(p), TRUE, FALSE), None, FALSE)
    /\ UNCHANGED env

ResetTexture ==
    /\ steps < MaxSteps
    /\ shared_poll(env, FALSE)
    /\ mesh' = set_or_apply_selected_faces(mesh, env, reset_tc, TRUE, TRUE, TRUE)
    /\ Done("reset", HandedBy(mesh, env, TRUE, TRUE, FALSE), None, FALSE)
    /\ UNCHANGED env

Reapply ==
    /\ steps < MaxSteps
    /\ shared_poll(env, FALSE)
    /\ mesh' = set_or_apply_selected_faces(mesh, env, new_unset, FALSE, TRUE, TRUE)
    /\ Done("reapply", HandedBy(mesh, env, TRUE, TRUE, FALSE), None, FALSE)
    /\ UNCHANGED env

CopyActiveToSelected ==
    /\ steps < MaxSteps
    /\ shared_poll(env, FALSE)
    /\ \E r \in {from_active_face(mesh, env)} :
        /\ mesh' = copy_active_config(r, env)
        /\ Done("copy_active_to_selected",
                IF r.ok THEN Some(apply_texture_faces(env, FALSE)) ELSE None, None, FALSE)
    /\ UNCHANGED env

LockedTransformOp ==
    /\ steps < MaxSteps
    /\ shared_poll(env, TRUE)
    /\ \E p \in LockedOpProps :
        \E mats \in {locked_transform_op_mats(env, p)} :
            /\ mesh' = do_locked_transform(mesh, env, mats)
            /\ OnGrid(mesh')
            /\ Done("locked_transform", None, Some(mats), TRUE)
    /\ UNCHANGED env

EndLockedTransform ==
    /\ steps < MaxSteps
    /\ shared_poll(env, TRUE)
    /\ \E p \in EndLockedProps :
        \E mats \in {end_locked_transform_mats(mesh, env, p)} :
            /\ mesh' = do_locked_transform(mesh, env, mats)
            /\ OnGrid(mesh')
            /\ Done("end_locked_transform", None, Some(mats), TRUE)
    /\ UNCHANGED env

\* The auto-apply handler (or its timer) reaches do_auto_apply for the object.
AutoApply ==
    /\ steps < MaxSteps
    /\ is_nail_mesh(mesh)
    /\ mesh' = do_auto_apply(mesh, env)
    /\ Done("auto_apply", Some(apply_texture_faces(env, TRUE)), None, FALSE)
    /\ UNCHANGED env

\* The user changes the selection (edit mode).
Select ==
    /\ steps < MaxSteps
    /\ env.editmode
    /\ \E sel \in Selections :
        /\ sel.fsel # env.fsel \/ sel.vsel # env.vsel \/ sel.active # env.active
        /\ env' = [env EXCEPT !.select_mode = sel.select_mode, !.fsel = sel.fsel,
                              !.vsel = sel.vsel, !.active = sel.active]
    /\ Done("select", None, None, FALSE)
    /\ UNCHANGED mesh

\* The user enters or leaves edit mode.
ToggleEditMode ==
    /\ steps < MaxSteps
    /\ env' = [env EXCEPT !.editmode = ~@]
    /\ Done("toggle_editmode", None, None, FALSE)
    /\ UNCHANGED mesh

Next ==
    \/ MarkFace
    \/ ClearFace
    \/ EditInvoke
    \/ EditExecute
    \/ ResetTexture
    \/ Reapply
    \/ CopyActiveToSelected
    \/ LockedTransformOp
    \/ EndLockedTransform
    \/ AutoApply
    \/ Select
    \/ ToggleEditMode

Spec == Init /\ [][Next]_vars

-----------------------------------------------------------------------------
(* The auto-apply handler                                                  *)

\* Objects of the scene: 1 is the modelled mesh object, 2 another NailMesh
\* object, 3 a mesh object without Nail attributes, 4 a light.
IsMeshObject(id) == id \in {1, 2, 3}

IsNailObject(m, id) == (id = 1 /\ is_nail_mesh(m)) \/ id = 2

\* One entry of depsgraph.updates; id 0 stands for None.
Update(id, updated) == [id |-> id, updated |-> updated]

depsgraph_update_is_applicable(m, u) ==
    /\ u.updated
    /\ u.id # 0 /\ IsMeshObject(u.id)
    /\ IsNailObject(m, u.id)

RECURSIVE ApplicableIds(_, _)
\* The ids of the applicable updates, in the order of depsgraph.updates.
ApplicableIds(m, updates) ==
    IF updates = <<>>
    THEN <<>>
    ELSE (IF depsgraph_update_is_applicable(m, Head(updates)) THEN <<Head(updates).id>> ELSE <<>>)
         \o ApplicableIds(m, Tail(updates))

\* The debounce step registering the timer without asking is_registered.
debounce_always_registering(h, ids, op_changed) ==
    IF ids = <<>>
    THEN [hs |-> h, applied |-> <<>>]
    ELSE IF op_changed
    THEN [hs |-> [h EXCEPT !.last_obj_list = ids, !.timers = 0], applied |-> ids]
    ELSE [hs |-> [h EXCEPT !.last_obj_list = ids, !.timers = @ + 1], applied |-> <<>>]

\* Lines 492-521, h already holding the new last_operator.
debounce(h, ids, op_changed) ==
    IF ids = <<>>
    THEN [hs |-> h, applied |-> <<>>]
    ELSE IF op_changed
    THEN [hs |-> [h EXCEPT !.last_obj_list = ids, !.timers = 0], applied |-> ids]
    ELSE [hs |-> [h EXCEPT !.last_obj_list = ids, !.timers = IF @ = 0 THEN 1 ELSE @],
          applied |-> <<>>]

\* The immediate step applying only the first applicable update.
immediate_first_only(h, ids) ==
    [hs |-> h, applied |-> IF ids = <<>> THEN <<>> ELSE <<Head(ids)>>]

\* Lines 482-486: every applicable update is applied.
immediate(h, ids) == [hs |-> h, applied |-> ids]

\* on_post_depsgraph_update on an event whose applicable updates are ids, with
\* context.active_operator = op: the handler's state and the objects it
\* hands to do_auto_apply.
on_post_depsgraph_update(h, ids, op) ==
    IF h.timer_ran
    THEN [hs |-> [h EXCEPT !.timer_ran = FALSE], applied |-> <<>>]
    ELSE IF h.active # "none"
    THEN [hs |-> [h EXCEPT !.active = IF @ = "stale" THEN "none" ELSE @], applied |-> <<>>]
    ELSE IF h.update_interval < 40
    THEN immediate(h, ids)
    ELSE debounce([h EXCEPT !.last_operator = op], ids, op # h.last_operator)

\* Whether the event reaches the debounce step with applicable updates.
ReachesDebounce(h, ids) ==
    ~h.timer_ran /\ h.active = "none" /\ h.update_interval >= 40 /\ ids # <<>>

\* The user's change of the modelled mesh: the vertices of face 1 move.
UserMove(m, updates) ==
    IF \E i \in 1..Len(updates) : updates[i].id = 1 /\ updates[i].updated
    THEN [m EXCEPT !.co = [v \in Verts |->
            IF v \in VertsOf({1}) THEN Add3(@[v], <<2, 0, 0>>) ELSE @[v]]]
    ELSE m

\* do_auto_apply over a list of objects; only object 1 has a modelled mesh.
AutoApplied(m, e, applied) == IF 1 \in SeqRange(applied) THEN do_auto_apply(m, e) ELSE m

\* Number of handler events, timer runs and preference changes in a run.
MaxEvents == 5

\* update_rate values in milliseconds.
Intervals == {0, 39, 40}

\* context.active_operator: 0 is None.
Operators == {0, 1}

EventUpdates ==
    {<<Update(1, TRUE)>>,
     <<Update(2, TRUE), Update(1, TRUE)>>,
     <<Update(3, TRUE), Update(2, TRUE)>>,
     <<Update(4, TRUE), Update(1, FALSE)>>}

AutoEnv == InitEnv(Selection("FACE", {1}, VertsOf({1}), 1), AffineIdentity, FALSE)

MarkedMesh == set_or_apply_selected_faces(InitMesh, AutoEnv, mark_nailface_tc, TRUE, TRUE, FALSE)

InitAuto ==
    /\ mesh = MarkedMesh
    /\ env = AutoEnv
    /\ last = [op |-> "init", handed |-> None, arg |-> None]
    /\ steps = 0
    /\ \E v \in Intervals :
        /\ ls = [AwakeLs EXCEPT !.update_rate = v]
        /\ hs = update_rate_updated(ls, InitHs)

\* The objects still owed an apply after a step: those a user's event listed
\* as applicable while no locked transform was recorded, less those the step
\* handed to do_auto_apply.
Owed(h, cause, ids, applied) ==
    ((IF cause = "user_update" /\ h.active = "none" THEN SeqRange(ids) ELSE {}) \cup h.owed)
        \ SeqRange(applied)

\* What a run of the handler leaves of the handler's attributes.
HandlerState(cause, ids, op, r) ==
    /\ hs' = [r.hs EXCEPT !.echo = r.applied,
                          !.active_operator = op,
                          !.seen = IF ReachesDebounce(hs, ids) THEN ids ELSE @,
                          !.owed = Owed(hs, cause, ids, r.applied)]
    /\ steps' = steps + 1

\* One run of the handler on an event, r being what on_post_depsgraph_update
\* returned for it: the applied objects are written and the depsgraph will
\* report those writes.
HandlerRun(cause, updates, ids, op, m, r) ==
    /\ mesh' = AutoApplied(m, env, r.applied)
    /\ HandlerState(cause, ids, op, r)
    /\ last' = [op |-> cause, handed |-> None,
                arg |-> [updates |-> updates, op |-> op, applied |-> r.applied]]
    /\ UNCHANGED <<env, ls>>

\* The user changes objects; the depsgraph reports the updates to the handler.
UserUpdate ==
    /\ steps < MaxEvents
    /\ ls.depsgraph_handler > 0
    /\ hs.echo = <<>>
    /\ \E updates \in EventUpdates, op \in Operators :
        \E m \in {UserMove(mesh, updates)} :
            \E ids \in {ApplicableIds(m, updates)} :
                HandlerRun("user_update", updates, ids, op, m,
                           on_post_depsgraph_update(hs, ids, op))

\* The depsgraph reports the handler's or the timer's own mesh writes.
EchoUpdate ==
    /\ steps < MaxEvents
    /\ ls.depsgraph_handler > 0
    /\ hs.echo # <<>>
    /\ \E updates \in {[i \in 1..Len(hs.echo) |-> Update(hs.echo[i], TRUE)]} :
        \E ids \in {ApplicableIds(mesh, updates)} :
            HandlerRun("echo_update", updates, ids, hs.active_operator, mesh,
                       on_post_depsgraph_update(hs, ids, hs.active_operator))

\* What geom_update_timer, once due, leaves of the handler's attributes.
TimerState ==
    /\ steps < MaxEvents
    /\ hs.timers > 0
    /\ hs.echo = <<>>
    /\ hs' = [hs EXCEPT !.timer_ran = TRUE, !.timers = @ - 1, !.echo = hs.last_obj_list,
                        !.owed = Owed(hs, "timer", <<>>, hs.last_obj_list)]
    /\ steps' = steps + 1

\* geom_update_timer fires (one-shot: it returns None).
TimerFire ==
    /\ TimerState
    /\ mesh' = AutoApplied(mesh, env, hs.last_obj_list)
    /\ last' = [op |-> "timer", handed |-> None,
                arg |-> [updates |-> <<>>, op |-> hs.active_operator, applied |-> hs.last_obj_list]]
    /\ UNCHANGED <<env, ls>>

\* update_rate_updated: the preference changes.
SetUpdateRate ==
    /\ steps < MaxEvents
    /\ \E v \in Intervals \ {ls.update_rate} :
        /\ ls' = [ls EXCEPT !.update_rate = v]
        /\ hs' = update_rate_updated(ls', hs)
    /\ last' = [op |-> "update_rate", handed |-> None, arg |-> None]
    /\ steps' = steps + 1
    /\ UNCHANGED <<mesh, env>>

\* AURYCAT_OT_nail_internal_modal_locked_transform: execute starts it, modal
\* ends it, and the host may destroy the operator while it is still recorded.
ModalLockedTransform ==
    /\ steps < MaxEvents
    /\ \/ hs.active = "none" /\ hs' = [hs EXCEPT !.active = "running"]
       \/ hs.active = "running" /\ hs' = [hs EXCEPT !.active = "none"]
       \/ hs.active = "running" /\ hs' = [hs EXCEPT !.active = "stale"]
    /\ last' = [op |-> "modal", handed |-> None, arg |-> None]
    /\ steps' = steps + 1
    /\ UNCHANGED <<mesh, env, ls>>

NextAuto ==
    \/ UserUpdate
    \/ EchoUpdate
    \/ TimerFire
    \/ SetUpdateRate
    \/ ModalLockedTransform

SpecAuto == InitAuto /\ [][NextAuto]_vars

\* EchoUpdate as it acts on the handler's attributes.
EchoState ==
    /\ steps < MaxEvents
    /\ ls.depsgraph_handler > 0
    /\ hs.echo # <<>>
    /\ \E updates \in {[i \in 1..Len(hs.echo) |-> Update(hs.echo[i], TRUE)]} :
        \E ids \in {ApplicableIds(mesh, updates)} :
            HandlerState("echo_update", ids, hs.active_operator,
                         on_post_depsgraph_update(hs, ids, hs.active_operator))

\* Scheduled timers fire (bpy.app.timers) and the depsgraph reports every
\* mesh write to the handlers of depsgraph_update_post.  The steps that
\* satisfy TimerState are the TimerFire steps and those that satisfy
\* EchoState the EchoUpdate steps, so the conditions are weak fairness of
\* TimerFire and of EchoUpdate, stated on the variables the scheduling reads.
SpecAutoLive ==
    SpecAuto /\ WF_<<hs, steps>>(TimerState) /\ WF_<<hs, steps>>(EchoState)

-----------------------------------------------------------------------------
(* The wake / sleep lifecycle                                              *)

\* Numbers of NailMesh objects in a file besides the modelled mesh.
Others == {0, 1}

InitWake ==
    /\ mesh = InitMesh
    /\ env = AutoEnv
    /\ last = [op |-> "init", handed |-> None, arg |-> None]
    /\ steps = 0
    /\ hs = InitHs
    /\ \E n \in Others : ls = InitLs(n)

\* What the step leaves of the lifecycle and of the handler's attributes.
Lifecycle(op, w) ==
    /\ ls' = w.ls
    /\ hs' = w.hs
    /\ last' = [op |-> op, handed |-> None, arg |-> None]
    /\ steps' = steps + 1

\* A depsgraph event that lists no mesh object reaches the handlers of
\* depsgraph_update_post: on_post_register, which passes the event on when
\* it woke the addon with auto_apply set, and on_post_depsgraph_update.
DepsgraphEvent ==
    /\ steps < MaxSteps
    /\ ls.post_register \/ ls.depsgraph_handler > 0
    /\ \E op \in Operators :
        \E w \in {IF ls.post_register THEN on_post_register(mesh, ls, hs)
                  ELSE [ls |-> ls, hs |-> hs]} :
            Lifecycle("depsgraph",
                      [ls |-> w.ls,
                       hs |-> IF w.ls.depsgraph_handler > 0
                              THEN [on_post_depsgraph_update(w.hs, <<>>, op).hs
                                        EXCEPT !.active_operator = op]
                              ELSE w.hs])
    /\ UNCHANGED <<mesh, env>>

\* The user loads a file: load_post calls on_post_load when it is installed.
LoadFile ==
    /\ steps < MaxSteps
    /\ \E m \in {InitMesh, MarkedMesh}, n \in Others :
        /\ mesh' = m
        /\ Lifecycle("load",
                     IF ls.post_load
                     THEN on_post_load(m, [ls EXCEPT !.others = n], hs)
                     ELSE [ls |-> [ls EXCEPT !.others = n], hs |-> hs])
    /\ UNCHANGED env

\* AURYCAT_OT_nail_sleep.execute
SleepOp ==
    /\ steps < MaxSteps
    /\ ls.registered
    /\ Lifecycle("sleep", [ls |-> nail_sleep(ls), hs |-> hs])
    /\ UNCHANGED <<mesh, env>>

\* AURYCAT_OT_nail_unregister.execute, or the addon is disabled.
Unregister ==
    /\ steps < MaxSteps
    /\ ls.registered
    /\ Lifecycle("unregister", [ls |-> unregister(ls), hs |-> hs])
    /\ UNCHANGED <<mesh, env>>

\* register(), run as a script when the addon is already registered.
Register ==
    /\ steps < MaxSteps
    /\ Lifecycle("register",
                 [ls |-> register(IF ls.registered THEN unregister(ls) ELSE ls),
                  hs |-> [hs EXCEPT !.active = "none"]])
    /\ UNCHANGED <<mesh, env>>

\* The auto_apply preference is assigned (auto_apply_updated is its update
\* callback, run on every assignment, the value changing or not).
SetAutoApply ==
    /\ steps < MaxSteps
    /\ ls.registered
    /\ \E v \in BOOLEAN :
        /\ ls' = auto_apply_updated([ls EXCEPT !.auto_apply = v])
        /\ last' = [op |-> "auto_apply_pref", handed |-> None,
                    arg |-> [value |-> v, registered |-> ls.depsgraph_handler]]
    /\ steps' = steps + 1
    /\ UNCHANGED hs
    /\ UNCHANGED <<mesh, env>>

\* The use_locked_transform_keymaps preference is assigned.
SetUseKeymaps ==
    /\ steps < MaxSteps
    /\ ls.registered
    /\ \E v \in BOOLEAN :
        Lifecycle("keymaps_pref",
                  [ls |-> use_locked_transform_keymaps_updated(
                             [ls EXCEPT !.use_locked_transform_keymaps = v]),
                   hs |-> hs])
    /\ UNCHANGED <<mesh, env>>

\* The user deletes the other NailMesh objects of the file.
DeleteObjects ==
    /\ steps < MaxSteps
    /\ ls.others > 0
    /\ Lifecycle("delete", [ls |-> [ls EXCEPT !.others = 0], hs |-> hs])
    /\ UNCHANGED <<mesh, env>>

NextWake ==
    \/ MarkFace
    \/ EditInvoke
    \/ LockedTransformOp
    \/ EndLockedTransform
    \/ DepsgraphEvent
    \/ LoadFile
    \/ SleepOp
    \/ Unregister
    \/ Register
    \/ SetAutoApply
    \/ SetUseKeymaps
    \/ DeleteObjects

SpecWake == InitWake /\ [][NextWake]_vars

-----------------------------------------------------------------------------
(* The NailMesh scope (with NailMesh(obj, readonly) as nm: body) over stored *)
(* values                                                                     *)

\* NailMesh.__init__: a read-only open of a mesh that is not a NailMesh raises.
NailMesh_init_raises(m, readonly) == readonly /\ ~is_nail_mesh(m)

\* NailMesh.__enter__: the bmesh the body works on, and whether init_attrs raised.
NailMesh_enter(m, readonly) ==
    IF readonly THEN [mesh |-> m, raised |-> FALSE] ELSE init_attrs_raising(m)

\* NailMesh.__exit__ with r the bmesh the scope leaves and whether it raised:
\* the mesh afterwards. In edit mode the bmesh is the mesh's own (from_edit_mesh);
\* in object mode it is a copy that to_mesh writes back on the success path of a
\* read-write open only.
NailMesh_exit(m, e, readonly, r) ==
    IF e.editmode THEN r.mesh
    ELSE IF ~readonly /\ ~r.raised THEN r.mesh
    ELSE m

\* Stored attributes of a face: never written; a NailFace whose scale lost a
\* component to a flattening transform that stopped at its shift update; a
\* NailFace with locked axes.
StoredDefault == AttrDefault

StoredFlattened ==
    [shift_flags |-> <<1, 2, TCFLAG_ENABLED>>, scale_rot |-> <<2, 0, 0>>,
     lock_uaxis |-> RIGHT_VECTORS[1], lock_vaxis |-> UP_VECTORS[1]]

StoredLocked ==
    [shift_flags |-> <<1, 2, TCFLAG_ENABLED + TCFLAG_ALIGN_LOCKED>>, scale_rot |-> <<2, 1, 1>>,
     lock_uaxis |-> <<1, 0, 0>>, lock_vaxis |-> <<0, 1, 0>>]

StoredAttrs == {StoredDefault, StoredFlattened, StoredLocked}

\* Meshes of a file: NailMeshes with stored face data, and meshes Nail has not
\* tagged, some holding an attribute of another domain or type under one of
\* Nail's names.
TaggedMeshes ==
    {[InitMesh EXCEPT !.uv_layers = TRUE, !.layers = SeqRange(ATTRS), !.attrs = a] :
        a \in [Faces -> StoredAttrs]}

UntaggedMeshes ==
    {InitMesh,
     [InitMesh EXCEPT !.foreign = {"scale_rot"}],
     [InitMesh EXCEPT !.uv_layers = TRUE, !.foreign = {"shift_flags"}],
     [InitMesh EXCEPT !.uv_layers = TRUE, !.foreign = {"lock_vaxis"}]}

OpenSelections ==
    {Selection("FACE", {1}, VertsOf({1}), 1), Selection("FACE", {1, 2}, VertsOf({1, 2}), 1)}

\* TextureConfigs with some fields unset.
PartialConfigs ==
    {new_unset,
     [new_unset EXCEPT !.shift = Some(<<2, 0>>)],
     [new_unset EXCEPT !.rotation = Some(1), !.flags = TCFLAG_ALIGN_FACE,
                       !.flags_set = TCFLAG_ALIGN_FACE + TCFLAG_ALIGN_LOCKED],
     [new_unset EXCEPT !.uaxis = Some(<<0, 1, 0>>), !.flags = TCFLAG_ALL,
                       !.flags_set = TCFLAG_OBJECT_SPACE],
     [new_unset EXCEPT !.scale = Some(<<2, 2>>), !.vaxis = Some(<<0, 0, 1>>),
                       !.flags_set = TCFLAG_ENABLED],
     [new_default EXCEPT !.flags = TCFLAG_ENABLED]}

\* Orders in which the faces can be handed to get_texture_config_one_face.
FaceOrders ==
    {<<1, 2, 3>>, <<1, 3, 2>>, <<2, 1, 3>>, <<2, 3, 1>>, <<3, 1, 2>>, <<3, 2, 1>>}

\* Property values of the finalising operators: a move, a scale that flattens
\* along Z, and the scale operator's default value.
OpenLockedProps ==
    {[kind |-> "translate", value |-> <<0, 1, 0>>, inverted_value |-> FALSE,
      orient_matrix |-> Identity3, pivot_mode |-> "CURSOR", cursor |-> Vec3Zero],
     [kind |-> "scale", value |-> <<1, 1, 0>>, inverted_value |-> FALSE,
      orient_matrix |-> Identity3, pivot_mode |-> "CURSOR", cursor |-> Vec3Zero],
     [kind |-> "scale", value |-> <<0, 0, 0>>, inverted_value |-> FALSE,
      orient_matrix |-> Identity3, pivot_mode |-> "CURSOR", cursor |-> Vec3Zero]}

\* Writes a body can make through an open NailMesh.
WriteBodies == {"set_texture_config", "apply_texture", "locked_transform"}

MaxOpens == 1

InitOpen ==
    /\ mesh \in TaggedMeshes \cup UntaggedMeshes
    /\ \E sel \in OpenSelections, editmode \in BOOLEAN :
        /\ ~editmode => sel.fsel = {1}
        /\ env = [InitEnv(sel, AffineIdentity, FALSE) EXCEPT !.editmode = editmode]
    /\ last = [op |-> "init", handed |-> None, arg |-> None]
    /\ steps = 0
    /\ hs = InitHs
    /\ ls = AwakeLs

\* The end of a scope: r is the bmesh the scope leaves and whether it raised,
\* value what the body computed.
Closed(op, readonly, r, value) ==
    /\ mesh' = NailMesh_exit(mesh, env, readonly, r)
    /\ last' = [op |-> op, handed |-> None,
                arg |-> [readonly |-> readonly, raised |-> r.raised, bm |-> r.mesh,
                         value |-> value]]
    /\ steps' = steps + 1
    /\ UNCHANGED <<env, hs, ls>>

\* set_texture_config_one_face(tc, face) in a read-write open of a NailMesh.
SetOneFace ==
    /\ steps < MaxOpens
    /\ is_nail_mesh(mesh)
    /\ \E tc \in PartialConfigs, face \in Faces :
        Closed("set_texture_config_one_face", FALSE,
               [mesh |-> [mesh EXCEPT !.attrs[face] = set_texture_config_one_face(tc, @)],
                raised |-> FALSE],
               [tc |-> tc, face |-> face])

\* get_texture_config_one_face over the visited faces, in some order, into a
\* fresh TextureConfig, in a read-only open.
MergeFaces ==
    /\ steps < MaxOpens
    /\ is_nail_mesh(mesh)
    /\ \E order \in FaceOrders :
        \E r \in {get_texture_config_from(mesh, env, new_unset, FALSE, order, 1)} :
            Closed("get_texture_config", TRUE, [mesh |-> r.mesh, raised |-> FALSE],
                   [order |-> order, tc |-> r.tc])

\* TextureConfig.from_selected_faces.
ReadSelected ==
    /\ steps < MaxOpens
    /\ env.editmode
    /\ \E r \in {from_selected_faces(mesh, env)} :
        Closed("from_selected_faces", TRUE, [mesh |-> r.mesh, raised |-> FALSE],
               [tc |-> r.tc])

\* TextureConfig.from_active_face.
ReadActive ==
    /\ steps < MaxOpens
    /\ \E r \in {from_active_face(mesh, env)} :
        Closed("from_active_face", TRUE, [mesh |-> r.mesh, raised |-> FALSE],
               [ok |-> r.ok])

\* What a write does to the bmesh of an open NailMesh.
WriteBody(body, m, e) ==
    CASE body = "set_texture_config" ->
            [mesh |-> set_texture_config(m, e, new_default), raised |-> FALSE]
      [] body = "apply_texture" -> [mesh |-> apply_texture(m, e, FALSE), raised |-> FALSE]
      [] OTHER -> locked_transform_from(m, e, Translation(<<0, 1, 0>>),
                                        Translation(<<0, 1, 0>>), 1)

\* with NailMesh(obj, readonly=True) as nm: a write.
ReadOnlyWrite ==
    /\ steps < MaxOpens
    /\ \E body \in WriteBodies :
        Closed("readonly_write", TRUE,
               IF NailMesh_init_raises(mesh, TRUE)
               THEN [mesh |-> mesh, raised |-> TRUE]
               ELSE WriteBody(body, mesh, env),
               [body |-> body])

\* Mark NailFace through its read-write open: set_texture_config of the
\* marking TextureConfig, then apply_texture.
ReadWriteMark ==
    /\ steps < MaxOpens
    /\ shared_poll(env, FALSE)
    /\ \E entered \in {NailMesh_enter(mesh, FALSE)} :
        Closed("mark_face", FALSE,
               IF entered.raised THEN entered
               ELSE [mesh |-> apply_texture(set_texture_config(entered.mesh, env, mark_nailface_tc),
                                            env, FALSE),
                     raised |-> FALSE],
               [entered |-> entered.mesh])

\* A finalising locked-transform operator through its read-write open.
ReadWriteLockedTransform ==
    /\ steps < MaxOpens
    /\ shared_poll(env, TRUE)
    /\ \E p \in OpenLockedProps :
        \E mats \in {end_locked_transform_mats(mesh, env, p)},
           entered \in {NailMesh_enter(mesh, FALSE)} :
            Closed("locked_transform", FALSE,
                   IF entered.raised THEN entered
                   ELSE locked_transform_from(entered.mesh, env, mats.mat, mats.world_mat, 1),
                   [entered |-> entered.mesh, p |-> p])

NextOpen ==
    \/ SetOneFace
    \/ MergeFaces
    \/ ReadSelected
    \/ ReadActive
    \/ ReadOnlyWrite
    \/ ReadWriteMark
    \/ ReadWriteLockedTransform

SpecOpen == InitOpen /\ [][NextOpen]_vars

-----------------------------------------------------------------------------
(* The operations that write locked axes, on a mesh with two NailFaces      *)

\* A rotation-scale part that is orthogonal.
Orthogonal(rs) == MatMul(rs, Transpose(rs)) = Identity3

\* Faces 1 and 2 selected and marked with Mark NailFace.
BothSelected == Selection("FACE", {1, 2}, VertsOf({1, 2}), 1)

MarkedBoth ==
    set_or_apply_selected_faces(InitMesh, InitEnv(BothSelected, AffineIdentity, FALSE),
                                mark_nailface_tc, TRUE, TRUE, FALSE)

InitAxes ==
    /\ mesh = MarkedBoth
    /\ \E sel \in OpenSelections : env = InitEnv(sel, AffineIdentity, FALSE)
    /\ last = [op |-> "init", handed |-> None, arg |-> None]
    /\ steps = 0
    /\ hs = InitHs
    /\ ls = AwakeLs

\* The Texture-Locked Transform operator with an orthogonal rotation-scale part.
OrthogonalLockedTransformOp ==
    /\ steps < MaxSteps
    /\ shared_poll(env, TRUE)
    /\ \E p \in LockedOpProps :
        \E mats \in {locked_transform_op_mats(env, p)} :
            /\ Orthogonal(mats.mat.rs)
            /\ mesh' = do_locked_transform(mesh, env, mats)
            /\ Done("locked_transform", None, Some(mats), TRUE)
    /\ UNCHANGED env

\* A finalising operator with an orthogonal rotation-scale part.
OrthogonalEndLockedTransform ==
    /\ steps < MaxSteps
    /\ shared_poll(env, TRUE)
    /\ \E p \in EndLockedProps :
        \E mats \in {end_locked_transform_mats(mesh, env, p)} :
            /\ Orthogonal(mats.mat.rs)
            /\ mesh' = do_locked_transform(mesh, env, mats)
            /\ Done("end_locked_transform", None, Some(mats), TRUE)
    /\ UNCHANGED env

NextAxes ==
    \/ MarkFace
    \/ EditExecute
    \/ ResetTexture
    \/ CopyActiveToSelected
    \/ OrthogonalLockedTransformOp
    \/ OrthogonalEndLockedTransform
    \/ Select

SpecAxes == InitAxes /\ [][NextAxes]_vars

-----------------------------------------------------------------------------
(* The interactive texture-locked transform (the modal operator)            *)

\* bl_idname of the host's transform operators the modal operator supports,
\* and of one it does not (vertex slide, edge slide, trackball).
HostTransforms == {"TRANSFORM_OT_translate", "TRANSFORM_OT_rotate", "TRANSFORM_OT_resize"}

HostOperators == HostTransforms \cup {"TRANSFORM_OT_vert_slide"}

\* Event types modal() distinguishes.
EventTypes == {"RIGHTMOUSE", "ESC", "LEFTMOUSE", "RET", "MOUSEMOVE"}

\* final_mode for the bl_idname of a supported operator.
final_mode(op) ==
    CASE op = "TRANSFORM_OT_translate" -> "translate"
      [] op = "TRANSFORM_OT_rotate" -> "rotate"
      [] OTHER -> "scale"

\* A modal() that finalises whatever operator completed.
modal_changed_finalizing_any(h, op) ==
    [hs |-> [h EXCEPT !.active = FALSE], result |-> "FINISHED", finalize |-> Some(final_mode(op))]

\* modal() once context.active_operator is not saved_operator (lines 1143-1171).
modal_changed(h, op) ==
    IF op # "none" /\ op \in HostTransforms
    THEN [hs |-> [h EXCEPT !.active = FALSE], result |-> "FINISHED",
          finalize |-> Some(final_mode(op))]
    ELSE [hs |-> [h EXCEPT !.active = FALSE], result |-> "CANCELLED", finalize |-> None]

\* modal() after the test of self.cancelled and the update for self.finished.
modal_event(h, event, op) ==
    IF event \in {"RIGHTMOUSE", "ESC"}
    THEN [hs |-> [h EXCEPT !.cancelled = TRUE], result |-> "PASS_THROUGH", finalize |-> None]
    ELSE IF event \in {"LEFTMOUSE", "RET"}
    THEN [hs |-> [h EXCEPT !.finished = TRUE], result |-> "PASS_THROUGH", finalize |-> None]
    ELSE IF op # h.saved_operator
    THEN modal_changed(h, op)
    ELSE [hs |-> h, result |-> "PASS_THROUGH", finalize |-> None]

\* A modal() that does not cancel itself on the event after LEFTMOUSE or RET.
modal_without_finished_timeout(h, event, op) ==
    IF h.cancelled
    THEN [hs |-> [h EXCEPT !.active = FALSE], result |-> "CANCELLED", finalize |-> None]
    ELSE modal_event(h, event, op)

\* A modal() without the test of self.cancelled.
modal_ignoring_cancelled(h, event, op) ==
    modal_event([h EXCEPT !.cancelled = h.finished], event, op)

\* AURYCAT_OT_nail_internal_modal_locked_transform.modal: the operator's
\* state, what it returns, and the final_mode handed to finalize_transform.
modal(h, event, op) ==
    IF h.cancelled
    THEN [hs |-> [h EXCEPT !.active = FALSE], result |-> "CANCELLED", finalize |-> None]
    ELSE modal_event([h EXCEPT !.cancelled = h.finished], event, op)

\* The operator before execute: the class attribute active, the instance's
\* flags and saved_operator, context.active_operator, the host's modal
\* transform, the timers finalize_transform registered with their final_mode,
\* what the operator returned last, and the mesh the two undo steps go back to.
InitModalHs(op) ==
    [running |-> FALSE, active |-> FALSE, cancelled |-> FALSE, finished |-> FALSE,
     saved_operator |-> "none", active_operator |-> op, host |-> "idle", timers |-> 0,
     final_mode |-> "none", result |-> "none", undo |-> MarkedMesh]

\* What the host's transform does to the mesh: the selected vertices move.
HostMove(m, e) ==
    [m EXCEPT !.co = [v \in Verts |-> IF v \in e.vsel THEN Add3(@[v], <<0, 1, 0>>) ELSE @[v]]]

\* The properties finalize_transform hands to the finalising operator.
FinalizeProps(mode) == CHOOSE p \in EndLockedProps : p.kind = mode

MaxModal == 5

InitModal ==
    /\ mesh = MarkedMesh
    /\ env = AutoEnv
    /\ last = [op |-> "init", handed |-> None, arg |-> None]
    /\ steps = 0
    /\ ls = AwakeLs
    /\ \E op \in {"none", "previous"} : hs = InitModalHs(op)

ModalStep(op, arg) ==
    /\ last' = [op |-> op, handed |-> None, arg |-> arg]
    /\ steps' = steps + 1
    /\ UNCHANGED <<env, ls>>

\* execute: the operator records itself, starts the host's transform and
\* becomes a modal handler.
ModalExecute ==
    /\ steps < MaxModal
    /\ ~hs.running /\ hs.timers = 0
    /\ shared_poll(env, TRUE)
    /\ hs' = [hs EXCEPT !.running = TRUE, !.active = TRUE, !.cancelled = FALSE,
                        !.finished = FALSE, !.saved_operator = hs.active_operator,
                        !.host = "running", !.result = "RUNNING_MODAL", !.undo = mesh]
    /\ ModalStep("execute", None)
    /\ UNCHANGED mesh

\* execute of a second instance while the first is recorded and not cancelled:
\* the first is marked cancelled and the second returns CANCELLED.
ModalExecuteAgain ==
    /\ steps < MaxModal
    /\ hs.running /\ hs.active /\ ~hs.cancelled
    /\ hs' = [hs EXCEPT !.cancelled = TRUE]
    /\ ModalStep("execute_again", None)
    /\ UNCHANGED mesh

\* The host's modal transform ends in a completed operator, which becomes
\* context.active_operator (None when the host has none) and whose geometry
\* change is committed.
HostCompletes ==
    /\ steps < MaxModal
    /\ hs.host = "running"
    /\ \E op \in HostOperators \cup {"none"} :
        /\ hs' = [hs EXCEPT !.host = "done", !.active_operator = op]
        /\ ModalStep("host_completes", Some(op))
    /\ mesh' = HostMove(mesh, env)

\* The host's modal transform is cancelled: no operator completes.
HostCancels ==
    /\ steps < MaxModal
    /\ hs.host = "running"
    /\ hs' = [hs EXCEPT !.host = "cancelled"]
    /\ ModalStep("host_cancels", None)
    /\ UNCHANGED mesh

\* The window manager hands an event to modal().
ModalEvent ==
    /\ steps < MaxModal
    /\ hs.running
    /\ \E event \in EventTypes :
        \E r \in {modal(hs, event, hs.active_operator)} :
            /\ hs' = [r.hs EXCEPT !.running = (r.result = "PASS_THROUGH"),
                                  !.result = r.result,
                                  !.timers = IF r.finalize # None THEN @ + 1 ELSE @,
                                  !.final_mode = IF r.finalize # None THEN r.finalize[1] ELSE @]
            /\ ModalStep("modal", [event |-> event, result |-> r.result,
                                   changed |-> hs.active_operator # hs.saved_operator
                                               /\ ~hs.cancelled
                                               /\ event = "MOUSEMOVE"])
    /\ UNCHANGED mesh

\* AURYCAT_MT_nail_main_menu.draw while an operator is recorded as active:
\* the operator is marked cancelled (lines 443-451).
MenuDraw ==
    /\ steps < MaxModal
    /\ hs.active
    /\ hs' = [hs EXCEPT !.cancelled = TRUE]
    /\ ModalStep("menu_draw", None)
    /\ UNCHANGED mesh

\* do_async: the two undo steps, then the finalising operator.
ModalFinalize ==
    /\ steps < MaxModal
    /\ hs.timers > 0
    /\ \E p \in {FinalizeProps(hs.final_mode)} :
        mesh' = do_locked_transform(hs.undo, env, end_locked_transform_mats(hs.undo, env, p))
    /\ hs' = [hs EXCEPT !.timers = @ - 1]
    /\ ModalStep("do_async", None)

NextModal ==
    \/ ModalExecute
    \/ ModalExecuteAgain
    \/ HostCompletes
    \/ HostCancels
    \/ ModalEvent
    \/ MenuDraw
    \/ ModalFinalize

SpecModal == InitModal /\ [][NextModal]_vars

-----------------------------------------------------------------------------
(* Several instances of the interactive operator and the class attribute   *)
(* active they share.  hs holds the instances (phase "new" before execute,  *)
(* "modal" while a modal handler, "done" once returned), the class attribute *)
(* active (0 is None, else the instance) and context.active_operator.       *)

Instances == 1..3

NewInstance ==
    [phase |-> "new", cancelled |-> FALSE, finished |-> FALSE, saved_operator |-> "none"]

InitInstances ==
    /\ mesh = MarkedMesh
    /\ env = AutoEnv
    /\ last = [op |-> "init", handed |-> None, arg |-> None]
    /\ steps = 0
    /\ ls = AwakeLs
    /\ hs = [inst |-> [i \in Instances |-> NewInstance], active |-> 0, active_operator |-> "none"]

InstanceStep(op, arg) ==
    /\ last' = [op |-> op, handed |-> None, arg |-> arg]
    /\ UNCHANGED <<mesh, env, ls, steps>>

\* execute of instance i (lines 1089-1116), another instance being recorded
\* and not cancelled: that one is marked cancelled, this one returns CANCELLED.
execute_cancelling_both(h, i) ==
    [h EXCEPT !.inst[h.active].cancelled = TRUE, !.inst[i].phase = "done"]

\* execute of instance i otherwise: it records itself and becomes a modal handler.
execute_starting(h, i) ==
    [h EXCEPT !.active = i,
              !.inst[i] = [phase |-> "modal", cancelled |-> FALSE, finished |-> FALSE,
                           saved_operator |-> h.active_operator]]

execute(h, i) ==
    IF h.active # 0 /\ ~h.inst[h.active].cancelled
    THEN execute_cancelling_both(h, i)
    ELSE execute_starting(h, i)

\* The next instance of the operator is invoked.
InstanceExecute ==
    /\ shared_poll(env, TRUE)
    /\ \E i \in Instances :
        /\ hs.inst[i].phase = "new"
        /\ \A j \in Instances : j < i => hs.inst[j].phase # "new"
        /\ hs' = execute(hs, i)
        /\ InstanceStep("execute", [instance |-> i, running |-> hs.active])

\* modal() of instance i: its flags afterwards, the class attribute (every
\* return but PASS_THROUGH assigns None to it), and whether it stays modal.
instance_modal(h, i, r) ==
    [h EXCEPT !.inst[i].cancelled = r.hs.cancelled,
              !.inst[i].finished = r.hs.finished,
              !.inst[i].phase = IF r.result = "PASS_THROUGH" THEN "modal" ELSE "done",
              !.active = IF r.hs.active THEN @ ELSE 0]

\* The window manager hands an event to the modal handler of instance i.
InstanceModal ==
    \E i \in Instances, event \in EventTypes :
        /\ hs.inst[i].phase = "modal"
        /\ \E r \in {modal([hs.inst[i] EXCEPT !.phase = "modal"] @@ [active |-> TRUE],
                           event, hs.active_operator)} :
            /\ hs' = instance_modal(hs, i, r)
            /\ InstanceStep("modal", [instance |-> i, event |-> event, result |-> r.result])

\* AURYCAT_MT_nail_main_menu.draw (lines 443-451).
InstanceMenuDraw ==
    /\ hs.active # 0
    /\ hs' = [hs EXCEPT !.inst[hs.active].cancelled = TRUE]
    /\ InstanceStep("menu_draw", None)

\* An operator of the host completes and becomes context.active_operator.
InstanceHostCompletes ==
    /\ \E i \in Instances : hs.inst[i].phase = "modal"
    /\ \E op \in HostOperators :
        /\ op # hs.active_operator
        /\ hs' = [hs EXCEPT !.active_operator = op]
        /\ InstanceStep("host_completes", Some(op))

NextInstances ==
    \/ InstanceExecute
    \/ InstanceModal
    \/ InstanceMenuDraw
    \/ InstanceHostCompletes

SpecInstances == InitInstances /\ [][NextInstances]_vars

-----------------------------------------------------------------------------
(* The classifiers of a vector, applied to vectors of a grid               *)

\* Vectors with equal maxima, zero components and both signs among them.
OrientationVectors == {<<x, y, z>> : x \in -2..2, y \in -2..2, z \in -2..2}

InitOrientation ==
    /\ mesh = InitMesh
    /\ env = InitEnv(Selection("FACE", {1}, VertsOf({1}), 1), AffineIdentity, FALSE)
    /\ \E v \in OrientationVectors :
        last = [op |-> "init", handed |-> None,
                arg |-> [v |-> v, orientation |-> None, dominant |-> None]]
    /\ steps = 0
    /\ hs = InitHs
    /\ ls = AwakeLs

\* face_orientation(v)
FaceOrientation ==
    /\ last.arg.orientation = None
    /\ last' = [last EXCEPT !.op = "face_orientation",
                            !.arg.orientation = Some(face_orientation(last.arg.v))]
    /\ steps' = steps + 1
    /\ UNCHANGED <<mesh, env, hs, ls>>

\* dominant_axis(v)
DominantAxis ==
    /\ last.arg.dominant = None
    /\ last' = [last EXCEPT !.op = "dominant_axis",
                            !.arg.dominant = Some(dominant_axis(last.arg.v))]
    /\ steps' = steps + 1
    /\ UNCHANGED <<mesh, env, hs, ls>>

NextOrientation == FaceOrientation \/ DominantAxis

SpecOrientation == InitOrientation /\ [][NextOrientation]_vars

-----------------------------------------------------------------------------
(* Properties of the face operations                                       *)

IsEnabled(m, face) == flag_is_set(m.attrs[face].shift_flags[3], TCFLAG_ENABLED)

StoredFlags(m, face) == m.attrs[face].shift_flags[3]

LockedOps == {"locked_transform", "end_locked_transform"}

\* C1: a face whose ENABLED flag is clear keeps its corner UVs through every
\* operation except mark_face and the edit that sets ENABLED (the edit
\* operator's invoke on faces none of which is a NailFace).
C1_DisabledFaceInvariance ==
    [][\A face \in Faces :
          (~IsEnabled(mesh, face) /\ mesh'.uv[face] # mesh.uv[face])
              => last'.op \in {"mark_face", "edit_invoke"}]_vars

\* An auto-apply has handed a disabled face of a NailMesh to the projection,
\* next to an enabled one, and the disabled face still has its initial UVs.
C1_Witness ==
    /\ last.op = "auto_apply"
    /\ \E face \in last.handed[1] :
        /\ ~IsEnabled(mesh, face)
        /\ mesh.uv[face] = UVDefault(face)
    /\ \E face \in last.handed[1] : IsEnabled(mesh, face) /\ mesh.uv[face] # UVDefault(face)

\* C2: no face's stored flags have both ALIGN_FACE and ALIGN_LOCKED set.
C2_FlagExclusion ==
    \A face \in Faces :
        ~(flag_is_set(StoredFlags(mesh, face), TCFLAG_ALIGN_FACE)
          /\ flag_is_set(StoredFlags(mesh, face), TCFLAG_ALIGN_LOCKED))

\* A locked transform has left an enabled face locked to its own axes.
C2_Witness ==
    /\ last.op \in LockedOps
    /\ \E face \in Faces :
        /\ IsEnabled(mesh, face)
        /\ flag_is_set(StoredFlags(mesh, face), TCFLAG_ALIGN_LOCKED)
        /\ ~flag_is_set(StoredFlags(mesh, face), TCFLAG_ALIGN_FACE)

\* C3: after an operation that writes or reprojects a face's config, the
\* stored shift of every applied ENABLED face is inside (-1, 1) on both axes.
C3_ShiftBounds ==
    \A face \in Faces :
        (/\ IsEnabled(mesh, face)
         /\ \/ last.handed # None /\ face \in last.handed[1]
            \/ last.op \in LockedOps /\ face \in VisitedFaces(env))
        => /\ Abs(mesh.attrs[face].shift_flags[1]) < Whole(1)
           /\ Abs(mesh.attrs[face].shift_flags[2]) < Whole(1)

\* C9: apply_texture hands the projection every face with a corner outside
\* edit mode, the selected faces for a user-invoked apply in edit mode, and the
\* faces selected or touching a selected vertex for an auto-apply in edit mode.
C9_DispatchPolicy ==
    last.handed # None =>
        last.handed[1] =
            IF ~env.editmode
            THEN {face \in Faces : Len(FaceVerts[face]) >= 1}
            ELSE IF last.op = "auto_apply"
            THEN {face \in Faces :
                    face \in env.fsel
                    \/ \E i \in 1..Len(FaceVerts[face]) : FaceVerts[face][i] \in env.vsel}
            ELSE env.fsel

\* An auto-apply in edit mode has reprojected a face that is not selected but
\* touches a selected vertex.
C9_Witness ==
    /\ last.op = "auto_apply"
    /\ env.editmode
    /\ \E face \in last.handed[1] :
        /\ face \notin env.fsel
        /\ IsEnabled(mesh, face)
        /\ mesh.uv[face] # UVDefault(face)

\* Two UV islands of a face are in the same place: identical with Wrap UVs
\* on, equal up to whole numbers otherwise.
SamePlace(e, uv1, uv2) ==
    \A i \in 1..Len(uv1) :
        IF e.wrap_uvs
        THEN uv1[i] = uv2[i]
        ELSE (uv1[i][1] - uv2[i][1]) % Whole(1) = 0 /\ (uv1[i][2] - uv2[i][2]) % Whole(1) = 0

\* C4: a translation-only locked transform leaves every ENABLED selected face
\* with the UVs apply gave it before the transform.
C4_TranslationLock ==
    [][(/\ last'.op \in LockedOps
        /\ last'.arg[1].mat.rs = Identity3
        /\ last'.arg[1].world_mat.rs = Identity3)
       => \A face \in env.fsel :
            IsEnabled(mesh, face)
            => SamePlace(env, apply_texture_one_face(mesh, env, face).uv,
                              apply_texture_one_face(mesh', env', face).uv)]_vars

\* C5: a locked transform whose rotation-scale part is orthogonal leaves every
\* ENABLED selected face with the UVs apply gave it before the transform.
C5_RotationLock ==
    [][(/\ last'.op \in LockedOps
        /\ last'.arg[1].mat.rs # Identity3
        /\ Orthogonal(last'.arg[1].mat.rs)
        /\ Orthogonal(last'.arg[1].world_mat.rs))
       => \A face \in env.fsel :
            IsEnabled(mesh, face)
            => SamePlace(env, apply_texture_one_face(mesh, env, face).uv,
                              apply_texture_one_face(mesh', env', face).uv)]_vars

-----------------------------------------------------------------------------
(* Properties of the auto-apply handler                                    *)

Delivered == {"user_update", "echo_update"}

\* C6: an event caused by a Nail texture write is ignored by the handler: it
\* applies nothing and schedules no timer.
C6_ReentrancySuppression ==
    [][last'.op = "echo_update"
       => (last'.arg.applied = <<>> /\ hs'.timers <= hs.timers)]_vars

\* C7 as stated: in debounce mode every event with an applicable update is
\* applied at once when the active operator differs from the one at the
\* previous event, and otherwise leaves exactly one timer pending.
C7_DebounceEveryEvent ==
    [][(/\ last'.op \in Delivered
        /\ hs.update_interval >= 40
        /\ ApplicableIds(mesh', last'.arg.updates) # <<>>)
       => IF last'.arg.op # hs.active_operator
          THEN last'.arg.applied = ApplicableIds(mesh', last'.arg.updates) /\ hs'.timers = 0
          ELSE last'.arg.applied = <<>> /\ hs'.timers = 1]_vars

\* C7: in debounce mode an event with an applicable update that is not dropped
\* (timer_ran clear, no interactive locked transform recorded) is applied at
\* once, cancelling the timer, when the active operator differs from
\* last_operator; otherwise nothing is applied and exactly one timer is
\* pending. A dropped event applies nothing, records nothing and leaves the
\* timer as it was. There is never more than one timer, and a firing timer
\* applies the objects recorded from the most recent event that was not dropped.
C7_Debounce ==
    [][/\ (last'.op \in Delivered /\ ReachesDebounce(hs, ApplicableIds(mesh', last'.arg.updates)))
          => IF last'.arg.op # hs.last_operator
             THEN /\ last'.arg.applied = ApplicableIds(mesh', last'.arg.updates)
                  /\ hs'.timers = 0
             ELSE /\ last'.arg.applied = <<>>
                  /\ hs'.timers = 1
       /\ (last'.op \in Delivered /\ hs.update_interval >= 40
              /\ (hs.timer_ran \/ hs.active # "none"))
          => /\ last'.arg.applied = <<>>
             /\ hs'.timers = hs.timers
             /\ hs'.last_obj_list = hs.last_obj_list
       /\ last'.op = "timer" => (last'.arg.applied = hs.seen /\ hs'.timers = 0)
       /\ hs'.timers <= 1]_vars

\* The timer has fired and applied the two objects of the second of two
\* events of the same operator.
C7_Witness ==
    /\ last.op = "timer"
    /\ hs.update_interval >= 40
    /\ last.arg.applied = <<2, 1>>
    /\ hs.timer_ran

\* C8 as stated: with update_interval below 40 ms every delivered event is
\* applied at once for every tagged mesh object it lists, and no timer is scheduled.
C8_ImmediateEveryEvent ==
    [][(last'.op \in Delivered /\ hs.update_interval < 40)
       => /\ last'.arg.applied = ApplicableIds(mesh', last'.arg.updates)
          /\ hs'.timers <= hs.timers]_vars

\* C8: with update_interval below 40 ms an event that is not dropped (timer_ran
\* clear, no interactive locked transform recorded) is applied at once for
\* every tagged mesh object it lists as updated, a dropped event applies
\* nothing, and no event schedules a timer.
C8_Immediate ==
    [][(last'.op \in Delivered /\ hs.update_interval < 40)
       => /\ last'.arg.applied = IF ~hs.timer_ran /\ hs.active = "none"
                                  THEN ApplicableIds(mesh', last'.arg.updates)
                                  ELSE <<>>
          /\ hs'.timers <= hs.timers]_vars

\* An event listing two NailMesh objects has been applied at once in immediate mode.
C8_Witness ==
    /\ last.op = "user_update"
    /\ hs.update_interval < 40
    /\ last.arg.applied = <<2, 1>>
    /\ hs.timers = 0

-----------------------------------------------------------------------------
(* Properties of the wake / sleep lifecycle                                *)

Idle == ~ls.nail_is_awake /\ ls.depsgraph_handler = 0 /\ ~ls.keymaps

count_of_tagged_meshes == (IF is_nail_mesh(mesh) THEN 1 ELSE 0) + ls.others

\* C10 as stated: in every reachable state the dispatcher is idle iff the
\* number of tagged meshes is zero.
C10_IdleIffNoTaggedMesh == Idle <=> count_of_tagged_meshes = 0

WakingOps ==
    {"load", "depsgraph", "mark_face", "edit_invoke", "locked_transform", "end_locked_transform"}

Installed ==
    /\ ls.depsgraph_handler > 0 <=> (ls.nail_is_awake /\ ls.auto_apply)
    /\ ls.keymaps <=> (ls.nail_is_awake /\ ls.use_locked_transform_keymaps)

\* C10: the auto-apply handler is installed exactly while the addon is awake
\* with auto_apply set, and the keymaps exactly while it is awake with
\* use_locked_transform_keymaps set, so an addon that is not awake is idle. It
\* wakes only when a tagged mesh exists, on a load event, on the first
\* depsgraph event after registration, or on an operator that may create a
\* NailMesh (mark_face, edit invoke, locked transform). It goes to sleep only
\* on a load event with zero tagged meshes, an explicit sleep request, or when
\* it is unregistered (a re-registration unregisters first). After a load
\* event with the load handler installed it is awake iff a tagged mesh exists,
\* and after mark_face it is awake if a tagged mesh exists.
C10_Lifecycle ==
    /\ Installed
    /\ [][/\ Installed'
          /\ (~ls.nail_is_awake /\ ls'.nail_is_awake)
                => (last'.op \in WakingOps /\ count_of_tagged_meshes' > 0)
          /\ (ls.nail_is_awake /\ ~ls'.nail_is_awake)
                => \/ last'.op = "load" /\ count_of_tagged_meshes' = 0
                   \/ last'.op \in {"sleep", "unregister", "register"}
          /\ (last'.op = "load" /\ ls.post_load)
                => (ls'.nail_is_awake <=> count_of_tagged_meshes' > 0)
          /\ (last'.op = "mark_face" /\ count_of_tagged_meshes' > 0)
                => ls'.nail_is_awake]_vars

\* mark_face on the only mesh of a file without NailMeshes has woken the
\* addon, which installed the auto-apply handler and the keymaps.
C10_Witness ==
    /\ last.op = "mark_face"
    /\ steps = 1
    /\ ls.others = 0
    /\ count_of_tagged_meshes = 1
    /\ ls.nail_is_awake /\ ls.depsgraph_handler > 0 /\ ls.keymaps

-----------------------------------------------------------------------------
(* Properties of the operators that write the configuration                *)

Shift(a) == <<a.shift_flags[1], a.shift_flags[2]>>

Scale(a) == <<a.scale_rot[1], a.scale_rot[2]>>

Rotation(a) == a.scale_rot[3]

Flags(a) == a.shift_flags[3]

\* The flags of a face other than ENABLED.
OtherFlags(a) == BitAnd(Flags(a), TCFLAG_ALL - TCFLAG_ENABLED)

FaceUnchanged(face) ==
    mesh'.attrs[face] = mesh.attrs[face] /\ mesh'.uv[face] = mesh.uv[face]

\* The stored UVs of the face are the projection of its stored config.
Reprojected(face) ==
    IsEnabled(mesh', face) => mesh'.uv[face] = apply_texture_one_face(mesh', env', face).uv

\* C11: reset on the selected faces of a tagged mesh leaves each face's
\* ENABLED bit as it was, sets shift (0,0), scale (1,1), rotation 0 and clears
\* ALIGN_FACE and ALIGN_LOCKED on every selected face, leaves the unselected
\* faces unchanged, and reprojects the selected faces.
C11_Reset ==
    [][(last'.op = "reset" /\ is_nail_mesh(mesh))
       => \A face \in Faces :
            IF face \in env.fsel
            THEN /\ IsEnabled(mesh', face) <=> IsEnabled(mesh, face)
                 /\ Shift(mesh'.attrs[face]) = <<0, 0>>
                 /\ Scale(mesh'.attrs[face]) = <<1, 1>>
                 /\ Rotation(mesh'.attrs[face]) = 0
                 /\ ~HasBit(Flags(mesh'.attrs[face]), TCFLAG_ALIGN_FACE)
                 /\ ~HasBit(Flags(mesh'.attrs[face]), TCFLAG_ALIGN_LOCKED)
                 /\ Reprojected(face)
            ELSE FaceUnchanged(face)]_vars

\* reset has run on a NailFace that a locked transform had left with locked
\* axes: the axes are still stored, the alignment flag is gone.
C11_Witness ==
    /\ last.op = "reset"
    /\ \E face \in env.fsel :
        /\ IsEnabled(mesh, face)
        /\ mesh.attrs[face].lock_uaxis # RIGHT_VECTORS[1]
        /\ ~HasBit(Flags(mesh.attrs[face]), TCFLAG_ALIGN_LOCKED)
        /\ Scale(mesh.attrs[face]) = <<1, 1>>

\* C12: clear_face clears ENABLED on every selected face of a tagged mesh and
\* changes nothing else: the other flags, shift, scale, rotation, locked axes
\* and corner UVs of those faces and everything of the unselected faces are
\* unchanged; an untagged mesh is left alone.
C12_ClearFace ==
    [][last'.op = "clear_face"
       => IF is_nail_mesh(mesh)
          THEN /\ mesh'.co = mesh.co /\ is_nail_mesh(mesh')
               /\ \A face \in Faces :
                    IF face \in env.fsel
                    THEN /\ ~IsEnabled(mesh', face)
                         /\ mesh'.attrs[face]
                              = [mesh.attrs[face] EXCEPT !.shift_flags[3] = OtherFlags(mesh.attrs[face])]
                         /\ mesh'.uv[face] = mesh.uv[face]
                    ELSE FaceUnchanged(face)
          ELSE mesh' = mesh]_vars

\* clear_face has run on a face that keeps a config and UVs of a NailFace.
C12_Witness ==
    /\ last.op = "clear_face"
    /\ \E face \in env.fsel :
        /\ ~IsEnabled(mesh, face)
        /\ Scale(mesh.attrs[face]) = <<2, 2>>
        /\ mesh.uv[face] # UVDefault(face)

\* C13 as stated: after mark_face every selected face has ENABLED set with its
\* other flags, shift, scale, rotation and locked axes unchanged, unselected
\* faces are unchanged, the mesh is tagged and the selected faces are reprojected.
C13_MarkFaceKeepsConfig ==
    [][last'.op = "mark_face"
       => /\ is_nail_mesh(mesh')
          /\ \A face \in Faces :
                IF face \in env.fsel
                THEN /\ mesh'.attrs[face]
                          = [mesh.attrs[face] EXCEPT !.shift_flags[3] = BitOr(@, TCFLAG_ENABLED)]
                     /\ Reprojected(face)
                ELSE FaceUnchanged(face)]_vars

\* The stored value the projection leaves for a scale component or a locked axis.
Clamped(a) ==
    [a EXCEPT !.scale_rot[1] = IF @ = 0 THEN 1 ELSE @,
              !.scale_rot[2] = IF @ = 0 THEN 1 ELSE @,
              !.lock_uaxis = IF @ = <<0, 0, 0>> THEN <<0, -1, 0>> ELSE @,
              !.lock_vaxis = IF @ = <<0, 0, 0>> THEN <<0, 0, 1>> ELSE @]

\* C13: after mark_face every selected face has ENABLED set with its other
\* flags, shift and rotation unchanged, and its scale and locked axes unchanged
\* except that a zero scale component is stored as 1 and an all-zero locked
\* axis as the canonical right (0,-1,0) or up (0,0,1) axis; unselected faces
\* are unchanged, the mesh is tagged, and the selected faces are reprojected.
C13_MarkFace ==
    [][last'.op = "mark_face"
       => /\ is_nail_mesh(mesh')
          /\ mesh'.co = mesh.co
          /\ \A face \in Faces :
                IF face \in env.fsel
                THEN /\ IsEnabled(mesh', face)
                     /\ mesh'.attrs[face]
                          = Clamped([mesh.attrs[face] EXCEPT !.shift_flags[3] = BitOr(@, TCFLAG_ENABLED)])
                     /\ Reprojected(face)
                ELSE FaceUnchanged(face)]_vars

\* mark_face has tagged a fresh mesh and projected its selected face.
C13_Witness ==
    /\ last.op = "mark_face"
    /\ steps = 1
    /\ is_nail_mesh(mesh)
    /\ \E face \in env.fsel :
        /\ IsEnabled(mesh, face)
        /\ Scale(mesh.attrs[face]) = <<1, 1>>
        /\ mesh.uv[face] # UVDefault(face)

\* What copy_active_to_selected copies: everything but ENABLED.
Copied(a) == [a EXCEPT !.shift_flags[3] = OtherFlags(a)]

CanCopy(m, e) ==
    e.editmode /\ is_nail_mesh(m) /\ e.active # 0 /\ e.active \in e.fsel /\ IsEnabled(m, e.active)

\* C14: copy_active_to_selected makes shift, scale, rotation, the OBJECT_SPACE,
\* ALIGN_FACE and ALIGN_LOCKED flags and the locked axes of every selected face
\* equal to those of the active face, leaves every ENABLED bit and the
\* unselected faces unchanged; without an active selected ENABLED face it
\* changes no face.
C14_CopyActiveToSelected ==
    [][last'.op = "copy_active_to_selected"
       => IF CanCopy(mesh, env)
          THEN \A face \in Faces :
                /\ IsEnabled(mesh', face) <=> IsEnabled(mesh, face)
                /\ IF face \in env.fsel
                   THEN Copied(mesh'.attrs[face]) = Copied(mesh.attrs[env.active])
                   ELSE FaceUnchanged(face)
          ELSE mesh' = mesh]_vars

\* The config of the active face has been copied to a second selected face
\* that is not a NailFace.
C14_Witness ==
    /\ last.op = "copy_active_to_selected"
    /\ last.handed # None
    /\ \E face \in env.fsel \ {env.active} :
        /\ ~IsEnabled(mesh, face)
        /\ IsEnabled(mesh, env.active)
        /\ Copied(mesh.attrs[face]) = Copied(mesh.attrs[env.active])

-----------------------------------------------------------------------------
(* Properties of the NailMesh scope                                        *)

\* The TextureConfig field, or the stored value when the field is unset.
Written(field, stored) == IF field # None THEN field[1] ELSE stored

\* C15: set_texture_config_one_face(tc, face) changes a flag bit of the face
\* only if the bit is in tc.flags_set, and then to tc.flags' bit; it changes
\* shift, scale, rotation and each locked axis only if tc's field is set, and
\* then to that value; the face's other stored fields, its UVs, the other
\* faces and the vertices keep their values.
C15_PartialWrite ==
    [][last'.op = "set_texture_config_one_face"
       => \E tc \in {last'.arg.value.tc}, face \in {last'.arg.value.face} :
            /\ \A bit \in FlagBits :
                HasBit(Flags(mesh'.attrs[face]), bit)
                    = IF HasBit(tc.flags_set, bit) THEN HasBit(tc.flags, bit)
                      ELSE HasBit(Flags(mesh.attrs[face]), bit)
            /\ Shift(mesh'.attrs[face]) = Written(tc.shift, Shift(mesh.attrs[face]))
            /\ Scale(mesh'.attrs[face]) = Written(tc.scale, Scale(mesh.attrs[face]))
            /\ Rotation(mesh'.attrs[face]) = Written(tc.rotation, Rotation(mesh.attrs[face]))
            /\ mesh'.attrs[face].lock_uaxis = Written(tc.uaxis, mesh.attrs[face].lock_uaxis)
            /\ mesh'.attrs[face].lock_vaxis = Written(tc.vaxis, mesh.attrs[face].lock_vaxis)
            /\ mesh'.uv = mesh.uv /\ mesh'.co = mesh.co
            /\ \A other \in Faces \ {face} : FaceUnchanged(other)]_vars

\* A config with flag bits outside flags_set and only the U axis set has been
\* written to a NailFace with locked axes: OBJECT_SPACE and the U axis are
\* new, ENABLED, ALIGN_LOCKED, shift, scale, rotation and the V axis are kept.
C15_Witness ==
    /\ last.op = "set_texture_config_one_face"
    /\ last.arg.value.tc.flags = TCFLAG_ALL
    /\ last.arg.value.tc.flags_set = TCFLAG_OBJECT_SPACE
    /\ mesh.attrs[last.arg.value.face]
         = [StoredLocked EXCEPT !.shift_flags[3] = @ + TCFLAG_OBJECT_SPACE,
                                !.lock_uaxis = <<0, 1, 0>>]

\* C16: merging the visited faces into a fresh TextureConfig through
\* get_texture_config_one_face gives, in every order of the faces, the same
\* flags, flags_set, unset fields and retained values.
C16_MergeCommutes ==
    [][last'.op = "get_texture_config"
       => \A order \in FaceOrders :
            get_texture_config_from(mesh, env, new_unset, FALSE, order, 1).tc
                = last'.arg.value.tc]_vars

\* Faces that agree on shift and scale but not on rotation, alignment and
\* locked axes have been merged in an order other than that of bm.faces.
C16_Witness ==
    /\ last.op = "get_texture_config"
    /\ last.arg.value.order # FaceOrder
    /\ last.arg.value.tc.multiple_faces
    /\ last.arg.value.tc.shift = Some(<<1, 2>>)
    /\ last.arg.value.tc.scale = Some(<<2, 1>>)
    /\ last.arg.value.tc.rotation = None
    /\ last.arg.value.tc.uaxis = None
    /\ last.arg.value.tc.flags_set = TCFLAG_ALL - TCFLAG_ALIGN_LOCKED
    /\ last.arg.value.tc.flags = TCFLAG_ENABLED

Readers == {"get_texture_config", "from_selected_faces", "from_active_face"}

\* C17: an operation performed through a read-only open (get_texture_config,
\* from_selected_faces, from_active_face) leaves every stored per-face
\* attribute and every corner UV of the mesh unchanged, whatever the stored
\* values are.
C17_ReadersDoNotMutate ==
    [][last'.op \in Readers => mesh'.attrs = mesh.attrs /\ mesh'.uv = mesh.uv]_vars

\* C18: a read-only open of a mesh that is not tagged raises, and a write
\* (set_texture_config, apply_texture, locked_transform) through a read-only
\* open raises instead of modifying face attributes or UVs.
C18_ReadOnlyMisuseRaises ==
    [][last'.op = "readonly_write" => last'.arg.raised /\ mesh' = mesh]_vars

\* The read-write scopes of the operators whose __enter__ completed.
EnteredReadWrite ==
    /\ last'.op \in {"mark_face", "locked_transform"}
    /\ is_nail_mesh(last'.arg.value.entered)

\* C19: a read-write open leaves on the mesh what its body made exactly when
\* the body completes without an exception; when the body fails part-way the
\* mesh holds none of the config, UV or vertex changes made so far.
C19_ScopedCommit ==
    [][EnteredReadWrite
       => mesh' = IF last'.arg.raised THEN mesh ELSE last'.arg.bm]_vars

\* The attributes Nail creates are all there or none of them is.
AllOrNone(m) == m.layers = {} \/ m.layers = SeqRange(ATTRS)

\* C20: in every reachable state the mesh carries either all four per-face
\* attributes or none of them, and a read-write open that aborts because one
\* of the names exists with the wrong domain or type has added no attribute
\* and no UV layer and changed no face data.
C20_NoPartialTagging ==
    /\ [](AllOrNone(mesh))
    /\ [][(last'.op \in {"mark_face", "locked_transform"} /\ last'.arg.raised
           /\ ~is_nail_mesh(last'.arg.value.entered))
          => mesh' = mesh]_vars

-----------------------------------------------------------------------------
(* Properties of degenerate inputs and of the locked axes                  *)

\* C21: apply and locked_transform complete without raising for every stored
\* config and every transform matrix, stored scale components equal to zero
\* and scale factors of 0 on an axis included.
C21_DegenerateInputsNotSurfaced ==
    [][EnteredReadWrite => ~last'.arg.raised]_vars

\* The normal of the face in the space of its stored axes.
NormalInSpace(m, e, face) ==
    IF flag_is_set(StoredFlags(m, face), TCFLAG_OBJECT_SPACE)
    THEN FaceNormal(m.co, face)
    ELSE MatVec(rot_world(e), FaceNormal(m.co, face))

IsUnit(v) == Dot(v, v) = 1

\* C22: every face with ALIGN_LOCKED set has LockUAxis and LockVAxis of unit
\* length, orthogonal to each other and orthogonal to the face's normal.
C22_LockedAxesInvariant ==
    \A face \in Faces :
        flag_is_set(StoredFlags(mesh, face), TCFLAG_ALIGN_LOCKED)
        => /\ IsUnit(mesh.attrs[face].lock_uaxis)
           /\ IsUnit(mesh.attrs[face].lock_vaxis)
           /\ Dot(mesh.attrs[face].lock_uaxis, mesh.attrs[face].lock_vaxis) = 0
           /\ Dot(mesh.attrs[face].lock_uaxis, NormalInSpace(mesh, env, face)) = 0
           /\ Dot(mesh.attrs[face].lock_vaxis, NormalInSpace(mesh, env, face)) = 0

-----------------------------------------------------------------------------
(* Properties of the interactive locked transform                          *)

\* C23: when modal() finds a completed host operator that is not translate,
\* rotate or resize, or finds none, it returns CANCELLED with active reset to
\* None, registers no finalising timer and rewrites nothing of the mesh, and
\* once the operator has ended that way no timer is pending and the face
\* configs are those before the transform, the host's geometry change in place.
C23_UnsupportedModalTransform ==
    /\ [][(last'.op = "modal" /\ last'.arg.changed /\ hs.active_operator \notin HostTransforms)
          => /\ hs'.result = "CANCELLED"
             /\ ~hs'.active /\ ~hs'.running
             /\ hs'.timers = hs.timers
             /\ mesh' = mesh]_vars
    /\ []((~hs.running /\ hs.host = "done" /\ hs.active_operator \notin HostTransforms)
          => /\ hs.result = "CANCELLED"
             /\ ~hs.active
             /\ hs.timers = 0
             /\ mesh = HostMove(hs.undo, env))

\* modal() has ended CANCELLED on a completed vertex slide, the vertices moved.
C23_Witness ==
    /\ last.op = "modal"
    /\ last.arg.changed
    /\ hs.active_operator = "TRANSFORM_OT_vert_slide"
    /\ hs.result = "CANCELLED"
    /\ mesh.co # hs.undo.co

-----------------------------------------------------------------------------
(* Properties of the projection                                            *)

\* The faces the last operation handed to the projection that are NailFaces.
Applied(face) == last.handed # None /\ face \in last.handed[1] /\ IsEnabled(mesh, face)

\* The corner UVs the projection gives the face with Wrap UVs off.
Unwrapped(face) == apply_texture_one_face(mesh, [env EXCEPT !.wrap_uvs = FALSE], face).uv

\* The face's corner UVs are u shifted by the whole-number delta d, and the
\* first corner is in [0,1) x [0,1).
WrappedBy(uv, u, d) ==
    /\ \A i \in 1..Len(uv) : uv[i] = <<u[i][1] + d[1], u[i][2] + d[2]>>
    /\ d[1] % Whole(1) = 0 /\ d[2] % Whole(1) = 0
    /\ 0 <= uv[1][1] /\ uv[1][1] < Whole(1)
    /\ 0 <= uv[1][2] /\ uv[1][2] < Whole(1)

\* C24: with Wrap UVs on, the corner UVs of each applied face are the result
\* with Wrap UVs off plus one delta common to all corners of the face, the
\* delta has whole-number components, and the first corner is in [0,1) x [0,1).
C24_WrapPreservesLayout ==
    \A face \in Faces :
        (Applied(face) /\ env.wrap_uvs)
        => WrappedBy(mesh.uv[face], Unwrapped(face),
                     <<mesh.uv[face][1][1] - Unwrapped(face)[1][1],
                       mesh.uv[face][1][2] - Unwrapped(face)[1][2]>>)

\* A face has been applied with Wrap UVs on and its island was moved by a
\* delta that is not zero, its corners not all inside the unit square.
C24_Witness ==
    /\ env.wrap_uvs
    /\ \E face \in Faces :
        /\ Applied(face)
        /\ mesh.uv[face] # Unwrapped(face)
        /\ \E i \in 1..Len(mesh.uv[face]) : mesh.uv[face][i][1] >= Whole(1)

\* Object-to-world matrices an object can be given.
WorldProbes == MatrixWorlds \cup {Affine(RotX, <<1, 0, 2>>)}

\* The corner UVs the projection gives the face when the object's matrix is mw.
ProjectedUnder(mw, face) == apply_texture_one_face(mesh, [env EXCEPT !.matrix_world = mw], face).uv

\* C25: for a face with OBJECT_SPACE set, the UVs apply writes are the same
\* whatever the object's world matrix is, in every alignment mode.
C25_ObjectSpaceIndependence ==
    \A face \in Faces :
        (Applied(face) /\ flag_is_set(StoredFlags(mesh, face), TCFLAG_OBJECT_SPACE))
        => \A mw \in WorldProbes : ProjectedUnder(mw, face) = mesh.uv[face]

\* An OBJECT_SPACE face with locked axes has been applied, and the same face
\* in world space would get other UVs under one of the matrices.
C25_Witness ==
    \E face \in Faces :
        /\ Applied(face)
        /\ StoredFlags(mesh, face) = TCFLAG_ENABLED + TCFLAG_OBJECT_SPACE + TCFLAG_ALIGN_LOCKED
        /\ \E mw \in WorldProbes :
            apply_texture_one_face([mesh EXCEPT !.attrs[face].shift_flags[3] =
                                        TCFLAG_ENABLED + TCFLAG_ALIGN_LOCKED],
                                   [env EXCEPT !.matrix_world = mw], face).uv # mesh.uv[face]

\* The axes (u, v) of a face as its stored flags select them.
SelectedAxes(m, e, face) ==
    IF flag_is_set(StoredFlags(m, face), TCFLAG_ALIGN_LOCKED)
    THEN <<m.attrs[face].lock_uaxis, m.attrs[face].lock_vaxis>>
    ELSE IF flag_is_set(StoredFlags(m, face), TCFLAG_ALIGN_FACE)
    THEN get_face_aligned_uv_axes(NormalInSpace(m, e, face))
    ELSE <<RIGHT_VECTORS[face_orientation(NormalInSpace(m, e, face)) + 1],
           UP_VECTORS[face_orientation(NormalInSpace(m, e, face)) + 1]>>

\* The corner position p: multiplied by the world matrix iff OBJECT_SPACE is clear.
CornerPosition(m, e, face, v) ==
    IF flag_is_set(StoredFlags(m, face), TCFLAG_OBJECT_SPACE)
    THEN m.co[v]
    ELSE AffinePoint(e.matrix_world, m.co[v])

\* Rot(rotation) (p.u, p.v), then divided by scale, then plus shift.
FormulaUV(m, e, face, v) ==
    LET a == m.attrs[face]
        p == CornerPosition(m, e, face, v)
        axes == SelectedAxes(m, e, face)
        rotated == Rotate2(a.scale_rot[3], <<Dot(p, axes[1]), Dot(p, axes[2])>>)
        divided == <<Div(Whole(rotated[1]), a.scale_rot[1]), Div(Whole(rotated[2]), a.scale_rot[2])>>
    IN  <<divided[1] + a.shift_flags[1], divided[2] + a.shift_flags[2]>>

FormulaUVs(m, e, face) ==
    [i \in 1..Len(FaceVerts[face]) |-> FormulaUV(m, e, face, FaceVerts[face][i])]

\* C27: for an ENABLED face, apply writes to each corner the UV
\* Rot(rotation) (p.u, p.v), then divided by scale, then plus shift, with p the
\* corner position (in world space iff OBJECT_SPACE is clear) and (u, v) the
\* stored locked axes under ALIGN_LOCKED, the face-aligned axes under
\* ALIGN_FACE, and otherwise the canonical right/up vectors of the normal's
\* orientation; the island is then wrapped when Wrap UVs is on.
C27_ProjectionFormula ==
    \A face \in Faces :
        Applied(face)
        => mesh.uv[face] = IF env.wrap_uvs
                           THEN WrapUVs(FormulaUVs(mesh, env, face))
                           ELSE FormulaUVs(mesh, env, face)

\* A face with a rotation, a scale and a shift has been applied on an object
\* whose world matrix is not the identity.
C27_Witness ==
    /\ ~env.wrap_uvs
    /\ env.matrix_world # AffineIdentity
    /\ \E face \in Faces :
        /\ Applied(face)
        /\ mesh.attrs[face].scale_rot = <<2, 2, 1>>
        /\ mesh.attrs[face].shift_flags = <<1, 2, TCFLAG_ENABLED + TCFLAG_ALIGN_FACE>>

\* A face with locked axes has been applied.
C27_LockedApplied ==
    \E face \in Faces :
        Applied(face) /\ flag_is_set(StoredFlags(mesh, face), TCFLAG_ALIGN_LOCKED)

-----------------------------------------------------------------------------
(* Properties of the Edit Texture invoke                                   *)

\* C26: the Edit Texture invoke with no face selected reports the warning,
\* returns CANCELLED, and changes no face config, no UV and no tagging.
C26_EmptySelection ==
    [][(last'.op = "edit_invoke" /\ env.fsel = {})
       => /\ last'.arg = [result |-> "CANCELLED",
                          report |-> Some(<<"WARNING", "No selected faces">>)]
          /\ last'.handed = None
          /\ mesh' = mesh]_vars

\* The invoke was cancelled on a NailMesh that has a NailFace, none selected.
C26_Witness ==
    /\ last.op = "edit_invoke"
    /\ env.fsel = {}
    /\ last.arg.result = "CANCELLED"
    /\ is_nail_mesh(mesh)
    /\ \E face \in Faces : IsEnabled(mesh, face)

-----------------------------------------------------------------------------
(* Properties of the merge                                                 *)

\* The NailFaces among the faces get_texture_config merges.
MergedEnabled(m, e) == {face \in VisitedFaces(e) : IsEnabled(m, face)}

Fields == {"shift", "scale", "rotation", "uaxis", "vaxis"}

\* The value of a field of a face as read from its attributes.
ReadField(m, e, face, field) ==
    CASE field = "shift" -> unpack_face_data(m, e, face).shift
      [] field = "scale" -> unpack_face_data(m, e, face).scale
      [] field = "rotation" -> unpack_face_data(m, e, face).rotation
      [] field = "uaxis" -> unpack_face_data(m, e, face).attr.lock_uaxis
      [] OTHER -> unpack_face_data(m, e, face).attr.lock_vaxis

AgreeOnField(m, e, field) ==
    \A a, b \in MergedEnabled(m, e) : ReadField(m, e, a, field) = ReadField(m, e, b, field)

AgreeOnBit(m, e, bit) ==
    \A a, b \in MergedEnabled(m, e) :
        HasBit(StoredFlags(m, a), bit) <=> HasBit(StoredFlags(m, b), bit)

\* tc is what the claim says the merge of the visited faces of m gives.
MergeResult(tc, m, e) ==
    /\ tc.multiple_faces <=> MergedEnabled(m, e) # {}
    /\ MergedEnabled(m, e) = {} => tc = new_unset
    /\ MergedEnabled(m, e) # {} =>
        /\ \A bit \in FlagBits :
            /\ HasBit(tc.flags_set, bit) <=> AgreeOnBit(m, e, bit)
            /\ HasBit(tc.flags, bit)
                <=> \A a \in MergedEnabled(m, e) : HasBit(StoredFlags(m, a), bit)
        /\ \A field \in Fields :
            tc[field] = IF AgreeOnField(m, e, field)
                        THEN Some(ReadField(m, e, CHOOSE a \in MergedEnabled(m, e) : TRUE, field))
                        ELSE None

\* C28: after merging the visited faces, in any order, into a fresh
\* TextureConfig, a flag bit is in flags_set iff all merged NailFaces agree on
\* it, flags then holds the common value and 0 otherwise, each of shift, scale,
\* rotation and the two axes is set iff all merged NailFaces have the same
\* value, faces that are not NailFaces leave the config untouched (a merge of
\* such faces only leaves it unset), and multiple_faces is true iff at least
\* one merged face is a NailFace.
C28_MergeResult ==
    [][last'.op = "get_texture_config" => MergeResult(last'.arg.value.tc, mesh, env)]_vars

\* Two NailFaces that differ in rotation, alignment and locked axes and a face
\* that is not a NailFace have been merged, the latter first.
C28_Witness ==
    /\ last.op = "get_texture_config"
    /\ ~IsEnabledFace(mesh, last.arg.value.order[1])
    /\ last.arg.value.order[1] \in VisitedFaces(env)
    /\ Cardinality(MergedEnabled(mesh, env)) = 2
    /\ last.arg.value.tc.rotation = None
    /\ last.arg.value.tc.scale # None
    /\ last.arg.value.tc.flags_set \notin {0, TCFLAG_ALL}

-----------------------------------------------------------------------------
(* Properties of the locked transform of one face                          *)

\* The NailFaces a locked transform visits.
Transformed(face) == face \in VisitedFaces(env) /\ IsEnabled(mesh, face)

\* The part of the matrices handed to locked_transform that applies to the
\* face: the world one iff OBJECT_SPACE is clear.
MatFor(mats, face) ==
    IF flag_is_set(StoredFlags(mesh, face), TCFLAG_OBJECT_SPACE) THEN mats.mat ELSE mats.world_mat

\* The face's axes transformed by rs and normalised, and its predicted normal.
NewAxes(rs, face) ==
    <<Normalize(MatVec(rs, SelectedAxes(mesh, env, face)[1])),
      Normalize(MatVec(rs, SelectedAxes(mesh, env, face)[2]))>>

PredictedNormal(rs, face) == Normalize(MatVec(rs, NormalInSpace(mesh, env, face)))

AxisAlignedBasis(n) == <<RIGHT_VECTORS[face_orientation(n) + 1], UP_VECTORS[face_orientation(n) + 1]>>

\* The flags and locked axes a1 stored after the transform by rs of a face
\* that stored a0, by the priority of the claim.
AlignmentChoice(a0, a1, rs, face) ==
    /\ IF NewAxes(rs, face) = AxisAlignedBasis(PredictedNormal(rs, face))
       THEN /\ ~flag_is_set(a1.shift_flags[3], TCFLAG_ALIGN_FACE)
            /\ ~flag_is_set(a1.shift_flags[3], TCFLAG_ALIGN_LOCKED)
            /\ a1.lock_uaxis = a0.lock_uaxis /\ a1.lock_vaxis = a0.lock_vaxis
       ELSE IF NewAxes(rs, face) = get_face_aligned_uv_axes(PredictedNormal(rs, face))
       THEN /\ flag_is_set(a1.shift_flags[3], TCFLAG_ALIGN_FACE)
            /\ ~flag_is_set(a1.shift_flags[3], TCFLAG_ALIGN_LOCKED)
            /\ a1.lock_uaxis = a0.lock_uaxis /\ a1.lock_vaxis = a0.lock_vaxis
       ELSE /\ ~flag_is_set(a1.shift_flags[3], TCFLAG_ALIGN_FACE)
            /\ flag_is_set(a1.shift_flags[3], TCFLAG_ALIGN_LOCKED)
            /\ <<a1.lock_uaxis, a1.lock_vaxis>> = NewAxes(rs, face)
    /\ flag_is_set(a1.shift_flags[3], TCFLAG_ENABLED)
    /\ flag_is_set(a1.shift_flags[3], TCFLAG_OBJECT_SPACE)
        <=> flag_is_set(a0.shift_flags[3], TCFLAG_OBJECT_SPACE)

\* C29: in a locked transform whose rotation-scale part is not the identity,
\* a face whose transformed, normalised axes equal the axis-aligned basis of
\* the predicted normal ends with ALIGN_FACE and ALIGN_LOCKED clear; else one
\* whose axes equal the face-aligned basis ends with ALIGN_FACE set and
\* ALIGN_LOCKED clear; else the face ends with ALIGN_LOCKED set, ALIGN_FACE
\* clear and the new axes stored as its locked axes; in the first two cases
\* the stored locked axes are unchanged; ENABLED and OBJECT_SPACE never change.
C29_AlignmentChoice ==
    [][last'.op \in LockedOps
       => \A face \in Faces :
            (Transformed(face) /\ MatFor(last'.arg[1], face).rs # Identity3)
            => AlignmentChoice(mesh.attrs[face], mesh'.attrs[face],
                               MatFor(last'.arg[1], face).rs, face)]_vars

\* A transform that is not a translation took one face to axis alignment
\* and another to locked axes.
C29_Witness ==
    /\ last.op \in LockedOps
    /\ last.arg[1].mat.rs # Identity3
    /\ \E a, b \in VisitedFaces(env) :
        /\ StoredFlags(mesh, a) = TCFLAG_ENABLED
        /\ flag_is_set(StoredFlags(mesh, b), TCFLAG_ENABLED + TCFLAG_ALIGN_LOCKED)

\* The shift the claim gives a face that stored a0 after a translation by t
\* along its axes.
TranslatedShift(a0, t, face) ==
    <<frac_n1to1(a0.shift_flags[1]
                 - Div(Whole(Dot(t, SelectedAxes(mesh, env, face)[1])), a0.scale_rot[1])),
      frac_n1to1(a0.shift_flags[2]
                 - Div(Whole(Dot(t, SelectedAxes(mesh, env, face)[2])), a0.scale_rot[2]))>>

\* a1 is a0 with nothing but the shift replaced.
TranslatedOnly(a0, a1, t, face) ==
    /\ a1.scale_rot = a0.scale_rot
    /\ a1.lock_uaxis = a0.lock_uaxis
    /\ a1.lock_vaxis = a0.lock_vaxis
    /\ a1.shift_flags[3] = a0.shift_flags[3]
    /\ <<a1.shift_flags[1], a1.shift_flags[2]>> = TranslatedShift(a0, t, face)

\* The matrices the finalising operator with properties p hands to locked_transform.
FinalisingMats(p) == end_locked_transform_mats(mesh, env, p)

\* C30: a locked transform whose rotation-scale part is the identity leaves
\* the flags, scale, rotation and locked axes of every face as stored and
\* changes only the shift, to frac_n1to1(shift.x - (t.u)/scale.x) and
\* frac_n1to1(shift.y - (t.v)/scale.y), t being the world translation if
\* OBJECT_SPACE is clear and the object translation otherwise.
C30_TranslationOnlyFrame ==
    [][last'.op = "locked_transform"
       => \A face \in Faces :
            IF Transformed(face) /\ MatFor(FinalisingMats(last'.arg.value.p), face).rs = Identity3
            THEN TranslatedOnly(mesh.attrs[face], mesh'.attrs[face],
                                MatFor(FinalisingMats(last'.arg.value.p), face).t, face)
            ELSE Transformed(face) \/ mesh'.attrs[face] = mesh.attrs[face]]_vars

-----------------------------------------------------------------------------
(* Properties of the callers and of the geometric move of locked_transform *)

\* world_mat describes in world space the motion mat describes in object
\* space: moving a point by mat and taking it to world space gives what
\* taking it to world space and moving it by world_mat gives.
SameMotion(mats, e) ==
    AffineMul(mats.world_mat, e.matrix_world) = AffineMul(e.matrix_world, mats.mat)

\* C31: every caller of locked_transform, the non-interactive operator and
\* the interactive finalisers, hands it a world_mat that describes in world
\* space the motion mat describes in object space, never the product of the
\* object's world matrix and mat.
C31_TransformPairing ==
    [][last'.op \in LockedOps
       => /\ SameMotion(last'.arg[1], env)
          /\ (env.matrix_world # AffineIdentity /\ last'.arg[1].mat # AffineIdentity)
                => last'.arg[1].world_mat # AffineMul(env.matrix_world, last'.arg[1].mat)]_vars

\* The vertex belongs to at least one selected face.
OnSelectedFace(v) == \E face \in env.fsel : \E i \in 1..Len(FaceVerts[face]) : FaceVerts[face][i] = v

\* C32: locked_transform moves each vertex that belongs to at least one
\* selected face, a NailFace or not, by mat exactly once, also when several
\* selected faces share it, moves no other vertex, and moves by mat with its
\* translation part restored.
C32_GeometricMove ==
    [][last'.op \in LockedOps
       => \A v \in Verts :
            mesh'.co[v] = IF OnSelectedFace(v)
                          THEN AffinePoint(last'.arg[1].mat, mesh.co[v])
                          ELSE mesh.co[v]]_vars

\* Two selected faces that share vertices 2 and 3, one of them not a NailFace,
\* have been moved by a matrix with a translation and a rotation or scale: the
\* shared vertex moved once, a vertex of the unselected face did not.
C32_Witness ==
    /\ last.op \in LockedOps
    /\ env.fsel = {1, 2}
    /\ \E face \in env.fsel : ~IsEnabled(mesh, face)
    /\ last.arg[1].mat.t # Vec3Zero
    /\ last.arg[1].mat.rs # Identity3
    /\ mesh.co[2] = AffinePoint(last.arg[1].mat, InitCo[2])
    /\ mesh.co[2] # AffinePoint(last.arg[1].mat, AffinePoint(last.arg[1].mat, InitCo[2]))
    /\ mesh.co[7] = InitCo[7]

-----------------------------------------------------------------------------
(* Properties of the classifiers                                           *)

\* The 0-based index of the axis with the largest |component|, ties broken X
\* over Y over Z.
LargestAxis(v) ==
    CHOOSE a \in 0..2 :
        /\ \A b \in 0..2 : Abs(v[a + 1]) >= Abs(v[b + 1])
        /\ \A b \in 0..2 : b < a => Abs(v[b + 1]) < Abs(v[a + 1])

\* The orientation code of axis a (0-based) and a sign.
OrientationCode(a, positive) == IF positive THEN a ELSE a + 3

\* C33: face_orientation selects the axis with the largest |component|, ties
\* broken X over Y over Z, and returns the positive code when that component
\* is >= 0 and the negative code otherwise; its axis is the first element of
\* dominant_axis, whose other two elements are the remaining indices in
\* ascending order.
C33_OrientationClassification ==
    /\ last.arg.orientation # None
        => last.arg.orientation[1]
            = OrientationCode(LargestAxis(last.arg.v), last.arg.v[LargestAxis(last.arg.v) + 1] >= 0)
    /\ last.arg.dominant # None
        => /\ last.arg.dominant[1][1] = LargestAxis(last.arg.v)
           /\ last.arg.dominant[1][2] < last.arg.dominant[1][3]
           /\ {last.arg.dominant[1][i] : i \in 1..3} = 0..2
    /\ (last.arg.orientation # None /\ last.arg.dominant # None)
        => last.arg.orientation[1] % 3 = last.arg.dominant[1][1]

\* A vector with three equal maxima and a negative X has been classified by
\* both functions.
C33_Witness ==
    /\ last.arg.v = <<-2, 2, -2>>
    /\ last.arg.orientation = Some(ORIENTATION_NX)
    /\ last.arg.dominant = Some(<<0, 1, 2>>)

-----------------------------------------------------------------------------
(* Properties of the modal phase of the interactive locked transform       *)

\* The step registers the timer of finalize_transform.
Finalises == hs'.timers > hs.timers

\* C34: for each invocation of the interactive operator finalize_transform is
\* scheduled at most once (the step that schedules it is a modal event that
\* ends the modal phase, and a new modal phase begins only with execute), only
\* when the operator the host completed is translate, rotate or resize, and
\* never once the interaction is cancelled, by ESC or RIGHTMOUSE, by the menu
\* or by a competing invocation.
C34_FinaliseAtMostOnce ==
    /\ [][Finalises => /\ last'.op = "modal"
                       /\ hs.running /\ ~hs'.running
                       /\ hs'.timers = hs.timers + 1
                       /\ hs.active_operator \in HostTransforms
                       /\ ~hs.cancelled]_vars
    /\ [][(~hs.running /\ hs'.running) => last'.op = "execute"]_vars
    /\ [](hs.timers <= 1)

\* A transform confirmed with LEFTMOUSE or RET has been finalised.
C34_Witness ==
    /\ hs.timers = 1
    /\ hs.finished
    /\ hs.result = "FINISHED"
    /\ hs.active_operator \in HostTransforms

\* After ESC or RIGHTMOUSE, the menu or a competing invocation, with the
\* host's operator completed all the same, the operator returned CANCELLED.
C34_CancelledNotFinalised ==
    /\ last.op = "modal"
    /\ hs.cancelled /\ ~hs.finished
    /\ hs.host = "done"
    /\ hs.active_operator \in HostTransforms
    /\ hs.result = "CANCELLED"
    /\ hs.timers = 0

\* The step is a call of modal() for the event.
ModalCall(events) == last'.op = "modal" /\ last'.arg.event \in events

\* C35: after RIGHTMOUSE or ESC the operator returns CANCELLED at its next
\* modal event (the event sets cancelled, cancelled stays set until then, and
\* a modal event with cancelled set returns CANCELLED); after LEFTMOUSE or RET
\* it terminates within at most two further modal events (the event sets
\* finished, which stays set, and a modal event with finished set either ends
\* the modal phase or sets cancelled); and on every path by which it leaves
\* the modal phase the class attribute active is None afterwards.
C35_ModalTermination ==
    /\ [][(ModalCall({"RIGHTMOUSE", "ESC"}) /\ hs'.running) => hs'.cancelled]_vars
    /\ [][(ModalCall({"LEFTMOUSE", "RET"}) /\ hs'.running) => hs'.finished \/ hs'.cancelled]_vars
    /\ [][(hs.running /\ hs.cancelled)
          => IF last'.op = "modal"
             THEN hs'.result = "CANCELLED" /\ ~hs'.running
             ELSE hs'.running /\ hs'.cancelled]_vars
    /\ [][(hs.running /\ hs.finished)
          => IF last'.op = "modal"
             THEN ~hs'.running \/ hs'.cancelled
             ELSE hs'.running /\ hs'.finished]_vars
    /\ [][(hs.running /\ ~hs'.running)
          => /\ last'.op = "modal"
             /\ hs'.result \in {"FINISHED", "CANCELLED"}
             /\ ~hs'.active]_vars

\* LEFTMOUSE was followed by two modal events during which the host's
\* transform did not complete: the operator returned CANCELLED at the second.
C35_Witness ==
    /\ last.op = "modal"
    /\ hs.finished /\ hs.cancelled
    /\ hs.host = "running"
    /\ hs.result = "CANCELLED"
    /\ ~hs.running
    /\ ~hs.active
    /\ steps = 4

-----------------------------------------------------------------------------
(* Properties of the instances of the interactive operator                 *)

\* Instance i is in its modal phase with cancelled = false.
Live(h, i) == h.inst[i].phase = "modal" /\ ~h.inst[i].cancelled

\* C36: under every interleaving of invocations and modal events at most one
\* instance of the interactive operator is in its modal phase with cancelled
\* false, whenever there is one the class attribute active refers to it, and
\* invoking another one while there is one cancels both.
C36_SingleInteractiveTransform ==
    /\ [](\A i, j \in Instances : (Live(hs, i) /\ Live(hs, j)) => i = j)
    /\ [](\A i \in Instances : Live(hs, i) => hs.active = i)
    /\ [][last'.op = "execute"
          => \A j \in Instances :
                Live(hs, j) => /\ hs'.inst[j].cancelled
                               /\ hs'.inst[last'.arg.instance].phase = "done"]_vars


-----------------------------------------------------------------------------
(* Properties of the auto-apply handler during a locked transform          *)

\* C37: while an interactive locked transform is recorded and live (active
\* refers to a running operator) no step applies any object, neither a
\* delivered event nor the debounce timer, and no delivered event schedules a
\* timer.
C37_NoLiveUpdateDuringLockedTransform ==
    [][hs.active = "running"
       => /\ last'.op \in Delivered \cup {"timer"} => last'.arg.applied = <<>>
          /\ last'.op \in Delivered => hs'.timers <= hs.timers]_vars

\* The handler alone: an event delivered while a live locked transform is
\* recorded applies nothing and schedules no timer.
C37_HandlerDuringLockedTransform ==
    [][(hs.active = "running" /\ last'.op \in Delivered)
       => (last'.arg.applied = <<>> /\ hs'.timers <= hs.timers)]_vars



-----------------------------------------------------------------------------
(* Properties of the handler registration                                  *)

\* C39: after any sequence of register, unregister, wake, sleep, load events
\* and preference assignments, on_post_depsgraph_update is in the handler list
\* only if nail_is_awake and auto_apply are set, it occurs there at most once,
\* and the keymaps are installed only if nail_is_awake and
\* use_locked_transform_keymaps are set.
C39_HandlerRegistration ==
    /\ ls.depsgraph_handler > 0 => (ls.nail_is_awake /\ ls.auto_apply)
    /\ ls.depsgraph_handler <= 1
    /\ ls.keymaps => (ls.nail_is_awake /\ ls.use_locked_transform_keymaps)

\* The auto_apply preference has been assigned the value it already had while
\* the handler was registered, and the handler is registered once.
C39_Witness ==
    /\ last.op = "auto_apply_pref"
    /\ last.arg.value /\ last.arg.registered = 1
    /\ ls.nail_is_awake /\ ls.auto_apply
    /\ ls.depsgraph_handler = 1
    /\ ls.keymaps



-----------------------------------------------------------------------------
(* Properties of the auto-apply handler over a whole run                   *)

\* C38: with auto-apply enabled and the addon awake, an object that a user's
\* event listed as changed while no locked transform was active is eventually
\* handed to do_auto_apply, timers firing and mesh writes being reported,
\* unless a locked transform begins or the run has no events left.
C38_AutoApplyLiveness ==
    \A id \in {1, 2} :
        []((id \in hs.owed /\ hs.active = "none")
              => <>(id \notin hs.owed \/ hs.active # "none" \/ steps >= MaxEvents))


====
